---- MODULE Spec2Model ----
(***************************************************************************)
(* PRMe: creation of a "full content" review pull request.                 *)
(*                                                                         *)
(* Three entry points of the repository are modelled, each as the program  *)
(* run by a process p:                                                     *)
(*   "Create"                FullPullRequestCreator.Create                 *)
(*                           (src/unnamed/part_008, orphan branches made   *)
(*                           with the git command: clone, commit-tree,     *)
(*                           branch, push)                                 *)
(*   "CreateFullPullRequest" repo.CreateFullPullRequest (src/prme.go,      *)
(*                           orphan branches made with the hosting API)    *)
(*   "CreateOrphanBranch"    client.CreateOrphanBranch (src/prme.go)       *)
(* After a workflow has returned, the cleanup primitives DeleteBranch and  *)
(* ClosePullRequest may be run by the auxiliary tooling.                   *)
(*                                                                         *)
(* The hosting service is the environment: it holds the branches, commits  *)
(* and pull requests of one repository and answers every request either    *)
(* faithfully or with a failure (transport error, unexpected status,       *)
(* body that does not decode or lacks the expected field).                 *)
(***************************************************************************)
EXTENDS Naturals, Sequences, FiniteSets, TLC

\* ------------------------------------------------------------------ bounds

\* Number of workflow executions that may run against the repository.
MaxProcs == 2

\* Number of pull requests the remote repository can hold.
MaxPRs == 2

\* The longest list of options handed to NewFullPullRequestCreator.
MaxOptions == 2

\* ------------------------------------------------------- program constants

StatusOK == 200
StatusCreated == 201
StatusNoContent == 204
StatusNotFound == 404
StatusUnprocessableEntity == 422
StatusInternalServerError == 500

\* --------------------------------------------------------------- universes

AllProcs == 1..MaxProcs

\* Marks a JSON field the response body does not hold, and a branch that
\* does not exist.
Absent == "<absent>"

RepoName == "o/r"
RepoNames == {"", "norepo", RepoName}
Tokens == {"", "tok"}
SourceNames == {"", "main"}
Titles == {"", "T"}
Bodies == {"", "B"}
BaseNames == {"", "rev-base", "main"}
HeadNames == {"", "rev-head", "rev-base"}

\* The refs under refs/heads/ the remote repository may hold.
BranchNames == {"main", "rev-base", "rev-head", "alt-base", "alt-head"}

\* Commit of the existing content, and a commit left by an earlier run.
MainCommit == "sha-main"
OldCommit == "sha-old"

\* The handle of the empty-tree commit made by process p, and of the merge
\* commit the remote makes when the commit from is merged into the commit
\* into.
EmptyTreeSha(p) == IF p = 1 THEN "sha-empty-1" ELSE "sha-empty-" \o ToString(p)
MergeSha(into, from) == "merge(" \o into \o "+" \o from \o ")"

\* The canonical URL of pull request number n.
PRURLOf(n) == "https://host/o/r/pull/" \o ToString(n)

VARIABLES
    procs,        \* the executions that run
    entry,        \* entry[p]: the entry point process p runs
    cfg,          \* cfg[p]: the FullPullRequestCreator / the arguments
    pc,           \* pc[p]: position in the entry point's code
    calls,        \* calls[p]: operations issued so far, in order
    emptyCommit,  \* emptyCommit[p]: local variable emptyCommit / commitSha
    idx,          \* idx[p]: loop index of CreateOrphanBranches' branch loop
    localRefs,    \* localRefs[p]: branches of the temporary clone
    ret,          \* ret[p]: what the entry point returned
    rRepoExists,  \* remote: the repository exists and the token reaches it
    rBranches,    \* remote: branch name -> commit handle, or Absent
    rCommits,     \* remote: commit objects of the repository
    rPRs,         \* remote: pull requests
    created,      \* created[p]: the refs the remote has created for execution p
    toolCalls,    \* toolCalls[p]: cleanup operations issued after p returned
    cli           \* cli[p]: what the command RunCLI has written, and its exit

vars == <<procs, entry, cfg, pc, calls, emptyCommit, idx, localRefs,
          ret, rRepoExists, rBranches, rCommits, rPRs, created, toolCalls, cli>>

progVars == <<procs, entry, cfg, cli>>
remoteVars == <<rRepoExists, rBranches, rCommits, rPRs, created>>

\* ------------------------------------------------------------------ errors

\* A Go error value: the message, and what the message names (operation,
\* branch/commit/repository, numeric status).  NoErr is nil.
Err(msg, op, subject, status) ==
    [msg |-> msg, op |-> op, subject |-> subject, status |-> status]

NoErr == Err("", "", <<>>, 0)

\* The error http.Client.Do returned, passed on unchanged.
TransportErr == Err("transport error", "", <<>>, 0)

\* The error json.Decoder.Decode returned, passed on unchanged.
DecodeErr == Err("json decode error", "", <<>>, 0)

\* --------------------------------------------------------------- responses

\* What the transport hands back for one request: either an error of
\* http.Client.Do (neterr), or a status code and a body.  decodes tells
\* whether the body is JSON of the expected shape; field is the value of the
\* one field the caller reads (Absent when the body does not hold it).
HTTP(status, decodes, field) ==
    [neterr |-> FALSE, status |-> status, decodes |-> decodes, field |-> field]

NetErr == [neterr |-> TRUE, status |-> 0, decodes |-> FALSE, field |-> Absent]

NoResp == [neterr |-> FALSE, status |-> 0, decodes |-> FALSE, field |-> Absent]

\* encoding/json into a (non-pointer) string field: a missing field leaves
\* the zero value.
StringField(resp) == IF resp.field = Absent THEN "" ELSE resp.field

\* encoding/json of a JSON number into an int.
NumberOf(s) == CHOOSE n \in 0..(MaxPRs + 1) : ToString(n) = s

\* strings.ToLower on the repository names of the model.
ToLower(s) == IF s = "O/R" THEN "o/r" ELSE IF s = "X/Y" THEN "x/y" ELSE s

\* strings.Contains(ownerAndName, "/") on the repository names of the model.
ContainsSlash(s) == s \in {"o/r", "O/R", "x/y", "X/Y", "o/", "/r"}

\* ---------------------------------------------------------- Git Operations
\* Each operator is the interpretation the code makes of the response resp;
\* the result is what the Go function returns.

\* Exists that compares the reported name with the requested one as is.
Exists_ExactCompare(resp, r) ==
    IF resp.neterr THEN [ok |-> FALSE, err |-> TransportErr]
    ELSE IF resp.status = StatusNotFound THEN [ok |-> FALSE, err |-> NoErr]
    ELSE IF resp.status # StatusOK
        THEN [ok |-> FALSE,
              err |-> Err("HTTP status while getting repository", "Exists", <<r>>, resp.status)]
    ELSE IF ~resp.decodes THEN [ok |-> FALSE, err |-> DecodeErr]
    ELSE IF StringField(resp) # r
        THEN [ok |-> FALSE,
              err |-> Err("incorrect repository name returned", "Exists", <<StringField(resp), r>>, 0)]
    ELSE [ok |-> TRUE, err |-> NoErr]

\* repo.Exists
Exists(resp, r) ==
    IF resp.neterr THEN [ok |-> FALSE, err |-> TransportErr]
    ELSE IF resp.status = StatusNotFound THEN [ok |-> FALSE, err |-> NoErr]
    ELSE IF resp.status # StatusOK
        THEN [ok |-> FALSE,
              err |-> Err("HTTP status while getting repository", "Exists", <<r>>, resp.status)]
    ELSE IF ~resp.decodes THEN [ok |-> FALSE, err |-> DecodeErr]
    ELSE IF ToLower(StringField(resp)) # ToLower(r)
        THEN [ok |-> FALSE,
              err |-> Err("incorrect repository name returned", "Exists", <<StringField(resp), r>>, 0)]
    ELSE [ok |-> TRUE, err |-> NoErr]

\* BranchExists that reports a branch of another name as not found.
BranchExists_MismatchIsAbsent(resp, r, branch) ==
    IF resp.neterr THEN [ok |-> FALSE, err |-> TransportErr]
    ELSE IF resp.status = StatusNotFound THEN [ok |-> FALSE, err |-> NoErr]
    ELSE IF resp.status # StatusOK
        THEN [ok |-> FALSE,
              err |-> Err("unexpected HTTP status while determining if branch exists",
                          "BranchExists", <<branch, r>>, resp.status)]
    ELSE IF ~resp.decodes THEN [ok |-> FALSE, err |-> DecodeErr]
    ELSE [ok |-> StringField(resp) = branch, err |-> NoErr]

\* repo.BranchExists
BranchExists(resp, r, branch) ==
    IF resp.neterr THEN [ok |-> FALSE, err |-> TransportErr]
    ELSE IF resp.status = StatusNotFound THEN [ok |-> FALSE, err |-> NoErr]
    ELSE IF resp.status # StatusOK
        THEN [ok |-> FALSE,
              err |-> Err("unexpected HTTP status while determining if branch exists",
                          "BranchExists", <<branch, r>>, resp.status)]
    ELSE IF ~resp.decodes THEN [ok |-> FALSE, err |-> DecodeErr]
    ELSE IF StringField(resp) # branch
        THEN [ok |-> FALSE,
              err |-> Err("incorrect name returned while checking if branch exists",
                          "BranchExists", <<StringField(resp), branch>>, 0)]
    ELSE [ok |-> TRUE, err |-> NoErr]

\* CommitExists that reports a commit of another sha as not found.
CommitExists_MismatchIsAbsent(resp, r, ref) ==
    IF resp.neterr THEN [ok |-> FALSE, err |-> TransportErr]
    ELSE IF resp.status = StatusNotFound THEN [ok |-> FALSE, err |-> NoErr]
    ELSE IF resp.status # StatusOK
        THEN [ok |-> FALSE,
              err |-> Err("HTTP status while getting commit", "CommitExists", <<ref, r>>, resp.status)]
    ELSE IF ~resp.decodes THEN [ok |-> FALSE, err |-> DecodeErr]
    ELSE IF StringField(resp) # ref THEN [ok |-> FALSE, err |-> NoErr]
    ELSE [ok |-> TRUE, err |-> NoErr]

\* repo.CommitExists
CommitExists(resp, r, ref) ==
    IF resp.neterr THEN [ok |-> FALSE, err |-> TransportErr]
    ELSE IF resp.status = StatusNotFound THEN [ok |-> FALSE, err |-> NoErr]
    ELSE IF resp.status # StatusOK
        THEN [ok |-> FALSE,
              err |-> Err("HTTP status while getting commit", "CommitExists", <<ref, r>>, resp.status)]
    ELSE IF ~resp.decodes THEN [ok |-> FALSE, err |-> DecodeErr]
    ELSE IF StringField(resp) # ref
        THEN [ok |-> FALSE,
              err |-> Err("incorrect commit sha returned", "CommitExists", <<StringField(resp), ref>>, 0)]
    ELSE [ok |-> TRUE, err |-> NoErr]

\* repo.CreateEmptyTreeCommit: the sha of the body, "" when the body has none.
CreateEmptyTreeCommit(resp, r) ==
    IF resp.neterr THEN [val |-> "", err |-> TransportErr]
    ELSE IF resp.status # StatusCreated
        THEN [val |-> "",
              err |-> Err("HTTP status while creating empty-tree commit",
                          "CreateEmptyTreeCommit", <<r>>, resp.status)]
    ELSE IF ~resp.decodes THEN [val |-> "", err |-> DecodeErr]
    ELSE [val |-> StringField(resp), err |-> NoErr]

\* CreateBranch that takes "already exists" (422) for success.
CreateBranch_ExistingIsFine(resp, r, branch, commitSha) ==
    IF resp.neterr THEN TransportErr
    ELSE IF resp.status \notin {StatusCreated, StatusUnprocessableEntity}
        THEN Err("HTTP status while creating branch", "CreateBranch",
                 <<branch, r>>, resp.status)
    ELSE NoErr

\* repo.CreateBranch
CreateBranch(resp, r, branch, commitSha) ==
    IF resp.neterr THEN TransportErr
    ELSE IF resp.status # StatusCreated
        THEN Err("HTTP status while creating branch", "CreateBranch",
                 <<branch, commitSha, r>>, resp.status)
    ELSE NoErr

\* MergeBranch that reports an unexpected status without saying which status,
\* which branches or which repository.
MergeBranch_BareStatusError(resp, r, baseBranch, headBranch) ==
    IF resp.neterr THEN TransportErr
    ELSE IF resp.status # StatusCreated
        THEN Err("HTTP status while merging branch", "MergeBranch", <<>>, 0)
    ELSE NoErr

\* repo.MergeBranch: merges headBranch into baseBranch.
MergeBranch(resp, r, baseBranch, headBranch) ==
    IF resp.neterr THEN TransportErr
    ELSE IF resp.status # StatusCreated
        THEN Err("HTTP status while merging branch", "MergeBranch",
                 <<headBranch, baseBranch, r>>, resp.status)
    ELSE NoErr

\* CreatePullRequest that trusts a 201 response to carry the URL.
CreatePullRequestURL_Unchecked(resp, r, baseBranch, headBranch) ==
    IF resp.neterr THEN [val |-> "", err |-> TransportErr]
    ELSE IF resp.status # StatusCreated
        THEN [val |-> "",
              err |-> Err("HTTP status while creating pull request", "CreatePullRequest",
                          <<r, baseBranch, headBranch>>, resp.status)]
    ELSE IF ~resp.decodes THEN [val |-> "", err |-> DecodeErr]
    ELSE [val |-> StringField(resp), err |-> NoErr]

\* repo.CreatePullRequest of src/unnamed/part_008: returns the PR URL.
CreatePullRequestURL(resp, r, baseBranch, headBranch) ==
    IF resp.neterr THEN [val |-> "", err |-> TransportErr]
    ELSE IF resp.status # StatusCreated
        THEN [val |-> "",
              err |-> Err("HTTP status while creating pull request", "CreatePullRequest",
                          <<r, baseBranch, headBranch>>, resp.status)]
    ELSE IF ~resp.decodes THEN [val |-> "", err |-> DecodeErr]
    ELSE IF resp.field = Absent
        THEN [val |-> "",
              err |-> Err("the Github API did not return a pull request HTML URL",
                          "", <<>>, 0)]
    ELSE [val |-> resp.field, err |-> NoErr]

\* CreatePullRequest that expects StatusOK where the service answers StatusCreated.
CreatePullRequestNumber_WantsOK(resp, r, baseBranch, headBranch) ==
    IF resp.neterr THEN [val |-> 0, err |-> TransportErr]
    ELSE IF resp.status # StatusOK
        THEN [val |-> 0,
              err |-> Err("HTTP status while creating pull request", "CreatePullRequest",
                          <<r, baseBranch, headBranch>>, resp.status)]
    ELSE [val |-> 0, err |-> NoErr]

\* repo.CreatePullRequest of src/prme.go: returns the PR number.
CreatePullRequestNumber(resp, r, baseBranch, headBranch) ==
    IF resp.neterr THEN [val |-> 0, err |-> TransportErr]
    ELSE IF resp.status # StatusCreated
        THEN [val |-> 0,
              err |-> Err("HTTP status while creating pull request", "CreatePullRequest",
                          <<r, baseBranch, headBranch>>, resp.status)]
    ELSE IF ~resp.decodes THEN [val |-> 0, err |-> DecodeErr]
    ELSE IF resp.field = Absent
        THEN [val |-> 0,
              err |-> Err("the Github API did not return a pull request number",
                          "", <<>>, 0)]
    ELSE [val |-> NumberOf(resp.field), err |-> NoErr]

\* repo.DeleteBranch
\* DeleteBranch that takes any of the success codes for success.
DeleteBranch_AnySuccessCode(resp, r, branch) ==
    IF resp.neterr THEN TransportErr
    ELSE IF resp.status \notin {StatusOK, StatusCreated, StatusNoContent}
        THEN Err("HTTP status while deleting branch", "DeleteBranch", <<branch, r>>, resp.status)
    ELSE NoErr

DeleteBranch(resp, r, branch) ==
    IF resp.neterr THEN TransportErr
    ELSE IF resp.status # StatusNoContent
        THEN Err("HTTP status while deleting branch", "DeleteBranch", <<branch, r>>, resp.status)
    ELSE NoErr

\* ClosePullRequest that expects the status of a deletion.
ClosePullRequest_WantsNoContent(resp, r, number) ==
    IF resp.neterr THEN TransportErr
    ELSE IF resp.status # StatusNoContent
        THEN Err("HTTP status while closing pull request", "ClosePullRequest",
                 <<number, r>>, resp.status)
    ELSE NoErr

\* repo.ClosePullRequest
ClosePullRequest(resp, r, number) ==
    IF resp.neterr THEN TransportErr
    ELSE IF resp.status # StatusOK
        THEN Err("HTTP status while closing pull request", "ClosePullRequest",
                 <<number, r>>, resp.status)
    ELSE NoErr

\* NewClient: the error of constructing a client with this token.
NewClient(token) ==
    IF token = ""
        THEN Err("the Github token cannot be empty, please specify a personal access token",
                 "", <<>>, 0)
    ELSE NoErr

\* NewRepo that takes any non-empty repository name.
NewRepo_AnyName(ownerAndName, token) ==
    IF ownerAndName = ""
        THEN Err("the repository cannot be empty", "", <<>>, 0)
    ELSE IF NewClient(token) # NoErr
        THEN Err("while constructing client for repository: token cannot be empty", "", <<>>, 0)
    ELSE NoErr

\* NewRepo of src/unnamed/part_008: the error of constructing the repository
\* reference.
NewRepo(ownerAndName, token) ==
    IF ownerAndName = ""
        THEN Err("the repository cannot be empty", "", <<>>, 0)
    ELSE IF ~ContainsSlash(ownerAndName)
        THEN Err("the repository must be of the form OwnerName/RepositoryName", "", <<>>, 0)
    ELSE IF NewClient(token) # NoErr
        THEN Err("while constructing client for repository: token cannot be empty", "", <<>>, 0)
    ELSE NoErr

\* ------------------------------------------------------------- environment
\* The hosting service.  A request is answered faithfully from the state of
\* the repository, or fails without effect (Failures).  A creating request
\* answered with status 201 has taken effect, also when the body of the
\* answer does not decode or lacks the field the caller reads.

RBranch(b) == IF b \in BranchNames THEN rBranches[b] ELSE Absent

NotFound == HTTP(StatusNotFound, FALSE, Absent)

Failures == {NetErr, HTTP(StatusInternalServerError, FALSE, Absent)}

\* GET /repos/<r>
ExistsResponses(r) ==
    Failures \cup
    (IF rRepoExists /\ ToLower(r) = RepoName
        THEN {HTTP(StatusOK, TRUE, "o/r"), HTTP(StatusOK, TRUE, "O/R"),
              HTTP(StatusOK, TRUE, "x/y"), HTTP(StatusOK, FALSE, Absent)}
        ELSE {NotFound})

\* GET /repos/<r>/branches/<b>
BranchExistsResponses(b) ==
    Failures \cup
    (IF rRepoExists /\ RBranch(b) # Absent
        THEN {HTTP(StatusOK, TRUE, b), HTTP(StatusOK, TRUE, "other"),
              HTTP(StatusOK, FALSE, Absent)}
        ELSE {NotFound})

\* GET /repos/<r>/git/commits/<sha>
CommitExistsResponses(sha) ==
    Failures \cup
    (IF rRepoExists /\ sha \in rCommits
        THEN {HTTP(StatusOK, TRUE, sha), HTTP(StatusOK, TRUE, "other"),
              HTTP(StatusOK, FALSE, Absent)}
        ELSE {NotFound})

Outcome(resp, applied) == [resp |-> resp, applied |-> applied]

Failed == {Outcome(f, FALSE) : f \in Failures}

\* POST /repos/<r>/git/commits by execution p
CreateCommitOutcomes(p) ==
    Failed \cup
    (IF rRepoExists
        THEN {Outcome(HTTP(StatusCreated, TRUE, EmptyTreeSha(p)), TRUE),
              Outcome(HTTP(StatusCreated, TRUE, Absent), TRUE),
              Outcome(HTTP(StatusCreated, FALSE, Absent), TRUE)}
        ELSE {Outcome(NotFound, FALSE)})

\* The remote accepts the creation of ref b at commit sha.
RefCreatable(b, sha) ==
    rRepoExists /\ b \in BranchNames /\ rBranches[b] = Absent /\ sha \in rCommits

\* POST /repos/<r>/git/refs
CreateRefOutcomes(b, sha) ==
    Failed \cup
    (IF RefCreatable(b, sha)
        THEN {Outcome(HTTP(StatusCreated, TRUE, Absent), TRUE)}
        ELSE {Outcome(HTTP(StatusUnprocessableEntity, FALSE, Absent), FALSE)})

\* POST /repos/<r>/merges: 201 with a new merge commit, 204 when base already
\* holds head, 404 when a branch is missing.
\* The history of the commit sha holds the commit c.
Contains(sha, c) ==
    \/ c = sha
    \/ \E t \in rCommits : sha = MergeSha(t, c) \/ sha = MergeSha(c, t)

MergeOutcomes(base, head) ==
    Failed \cup
    (IF rRepoExists /\ RBranch(base) # Absent /\ RBranch(head) # Absent
        THEN IF Contains(RBranch(base), RBranch(head))
                THEN {Outcome(HTTP(StatusNoContent, FALSE, Absent), FALSE)}
                ELSE {Outcome(HTTP(StatusCreated, TRUE, Absent), TRUE)}
        ELSE {Outcome(NotFound, FALSE)})

OpenPRs == {pr \in rPRs : pr.state = "open"}

NextPRNumber == Cardinality(rPRs) + 1

\* The remote accepts a pull request from head into base.
PRCreatable(base, head) ==
    /\ rRepoExists
    /\ RBranch(base) # Absent /\ RBranch(head) # Absent
    /\ RBranch(base) # RBranch(head)
    /\ ~\E pr \in OpenPRs : pr.base = base /\ pr.head = head
    /\ Cardinality(rPRs) < MaxPRs

\* POST /repos/<r>/pulls; handle is the value of the field the caller reads.
CreatePROutcomes(base, head, handle) ==
    Failed \cup
    (IF PRCreatable(base, head)
        THEN {Outcome(HTTP(StatusCreated, TRUE, handle), TRUE),
              Outcome(HTTP(StatusCreated, TRUE, Absent), TRUE),
              Outcome(HTTP(StatusCreated, FALSE, Absent), TRUE)}
        ELSE {Outcome(HTTP(StatusUnprocessableEntity, FALSE, Absent), FALSE)})

\* DELETE /repos/<r>/git/refs/heads/<b>
DeleteRefOutcomes(b) ==
    Failed \cup
    (IF rRepoExists /\ RBranch(b) # Absent
        THEN {Outcome(HTTP(StatusNoContent, FALSE, Absent), TRUE)}
        ELSE {Outcome(HTTP(StatusUnprocessableEntity, FALSE, Absent), FALSE)})

\* PATCH /repos/<r>/pulls/<n> {"state":"closed"}
ClosePROutcomes(n) ==
    Failed \cup
    (IF rRepoExists /\ \E pr \in rPRs : pr.number = n
        THEN {Outcome(HTTP(StatusOK, TRUE, Absent), TRUE)}
        ELSE {Outcome(NotFound, FALSE)})

\* Effects on the repository.
AddCommit(sha) == rCommits' = rCommits \cup {sha}

Ref(b, sha) == [name |-> b, sha |-> sha]

SetBranch(p, b, sha) ==
    /\ rBranches' = [rBranches EXCEPT ![b] = sha]
    /\ created' = [created EXCEPT ![p] = @ \cup {Ref(b, sha)}]

AddPR(p, title, body, base, head) ==
    rPRs' = rPRs \cup {[number |-> NextPRNumber, title |-> title, body |-> body,
                        base |-> base, head |-> head, state |-> "open", by |-> p]}

\* ------------------------------------------------------------ initial state

Config(token, repository, full, title, body, base, head) ==
    [Token |-> token, Repo |-> repository, FullRepoBranch |-> full, Title |-> title,
     Body |-> body, BaseBranch |-> base, HeadBranch |-> head]

\* A FullPullRequestCreator value: any field may be empty, since the fields
\* are exported and NewFullPullRequestCreatorFromArgs assigns them unchecked.
CreateConfigs ==
    {Config(t, r, f, ti, bo, b, h) :
        t \in Tokens, r \in RepoNames, f \in SourceNames, ti \in Titles,
        bo \in Bodies, b \in BaseNames, h \in HeadNames}

\* Arguments of repo.CreateFullPullRequest on a repo NewRepo has returned.
CFPRConfigs ==
    {Config("tok", RepoName, f, ti, bo, b, h) :
        f \in SourceNames, ti \in Titles, bo \in Bodies, b \in BaseNames, h \in HeadNames}

\* Arguments of client.CreateOrphanBranch: the branch is held in BaseBranch.
COBConfigs ==
    {Config("tok", RepoName, "main", "T", "B", b, "rev-head") : b \in BaseNames}

IdleConfig == Config("", "", "", "", "", "", "")

\* The Git Operations, each of which may be called on its own.
Lookups == {"Exists", "BranchExists", "CommitExists"}
Creations == {"CreateEmptyTreeCommit", "CreateBranch", "MergeBranch",
              "CreatePullRequest", "CreatePullRequestNumber"}
Removals == {"DeleteBranch", "ClosePullRequest"}
GitOperations == Lookups \cup Creations \cup Removals

\* Receiver and arguments of a single Git Operation: the repository, the
\* branch or commit looked up, created or deleted (held in BaseBranch), the
\* branch merged in (FullRepoBranch), the head of the pull request.
OpConfigs ==
    {Config("tok", r, "main", "T", "B", b, "rev-head") :
        r \in {RepoName, "O/R"}, b \in {"rev-base", OldCommit}}

\* The command line and the environment NewFullPullRequestCreatorFromArgs
\* reads.  The flags defined on the flag set; version is a boolean flag, its
\* value is held as the text flag.Value.String() returns.
StringFlags == {"fbranch", "title", "body", "bbranch", "hbranch"}
FlagNames == StringFlags \cup {"version"}

\* Marks a flag that does not occur on the command line.
NotGiven == "<not given>"

DefaultFullRepoBranch == "main"
DefaultTitle == "Full Review"
DefaultBody == "A full review of the entire repository. When this PR is complete, be sure to manually merge its base branch into the main branch for this repository."
DefaultBaseBranch == "prme-full-review"
DefaultHeadBranch == "prme-full-content"

\* flag.Flag.DefValue: the default the flag was defined with.
DefValue(name) ==
    CASE name = "fbranch" -> DefaultFullRepoBranch
      [] name = "title" -> DefaultTitle
      [] name = "body" -> DefaultBody
      [] name = "bbranch" -> DefaultBaseBranch
      [] name = "hbranch" -> DefaultHeadBranch
      [] name = "version" -> "false"

\* strings.ToUpper on the flag names.
ToUpper(name) ==
    CASE name = "fbranch" -> "FBRANCH"
      [] name = "title" -> "TITLE"
      [] name = "body" -> "BODY"
      [] name = "bbranch" -> "BBRANCH"
      [] name = "hbranch" -> "HBRANCH"
      [] name = "version" -> "VERSION"

EnvVarName(name) == "PRME_" \o ToUpper(name)

EnvNames == {EnvVarName(name) : name \in FlagNames} \cup {"GH_TOKEN"}

\* A command line: the value each flag is given (a flag may be given the
\* very value it defaults to), then the arguments that follow the flags.
FlagValues(name) ==
    IF name = "version" THEN {NotGiven, "true"}
    ELSE {NotGiven, DefValue(name), "cli-" \o name}
RestArgs == {<<>>, <<"o/r">>, <<"github.com/o/r">>, <<"o/r", "x/y">>}
FlagsGiven(fb, ti, bo, bb, hb, ve) ==
    [name \in FlagNames |->
        CASE name = "fbranch" -> fb
          [] name = "title" -> ti
          [] name = "body" -> bo
          [] name = "bbranch" -> bb
          [] name = "hbranch" -> hb
          [] name = "version" -> ve]
CommandLines ==
    {[flags |-> FlagsGiven(fb, ti, bo, bb, hb, ve), rest |-> r] :
        fb \in FlagValues("fbranch"), ti \in FlagValues("title"),
        bo \in FlagValues("body"), bb \in FlagValues("bbranch"),
        hb \in FlagValues("hbranch"), ve \in FlagValues("version"),
        r \in RestArgs}

\* os.Getenv for each variable read: "" for a variable that is unset or
\* empty.  PRME_VERSION, which no documentation names, is left unset.
EnvValues(v) ==
    IF v = "GH_TOKEN" THEN {"", "tok"}
    ELSE IF v = "PRME_VERSION" THEN {""}
    ELSE {"", "env-" \o v}
Environ(fb, ti, bo, bb, hb, ve, tok) ==
    [v \in EnvNames |->
        CASE v = "PRME_FBRANCH" -> fb
          [] v = "PRME_TITLE" -> ti
          [] v = "PRME_BODY" -> bo
          [] v = "PRME_BBRANCH" -> bb
          [] v = "PRME_HBRANCH" -> hb
          [] v = "PRME_VERSION" -> ve
          [] v = "GH_TOKEN" -> tok]
Environments ==
    {Environ(fb, ti, bo, bb, hb, ve, tok) :
        fb \in EnvValues("PRME_FBRANCH"), ti \in EnvValues("PRME_TITLE"),
        bo \in EnvValues("PRME_BODY"), bb \in EnvValues("PRME_BBRANCH"),
        hb \in EnvValues("PRME_HBRANCH"), ve \in EnvValues("PRME_VERSION"),
        tok \in EnvValues("GH_TOKEN")}

\* The inputs of NewFullPullRequestCreatorFromArgs.
ArgConfigs == {[Args |-> a, Env |-> e] : a \in CommandLines, e \in Environments}

\* The command lines and environments RunCLI is started with: the branch
\* names are given by flag or by the environment, the title may be given
\* empty, the token may be missing.
CLIConfigs ==
    {[Args |-> [flags |-> FlagsGiven(NotGiven, ti, NotGiven, bb, hb, ve), rest |-> r],
      Env |-> Environ("", "", "", "rev-base", "", "", tok)] :
        ti \in {NotGiven, ""}, bb \in {NotGiven, "main"}, hb \in {"rev-head", ""},
        ve \in {NotGiven, "true"}, r \in RestArgs, tok \in {"", "tok"}}

\* Two configurations whose base and head branch names are pairwise
\* disjoint, for two executions against the same repository.
PairConfig(p) ==
    IF p = 1 THEN Config("tok", RepoName, "main", "T", "B", "rev-base", "rev-head")
             ELSE Config("tok", RepoName, "main", "T", "B", "alt-base", "alt-head")
PairConfigs == {PairConfig(1), PairConfig(2)}

\* Configurations with every choice of source, base and head branch name
\* among three names, equal names included: the workflow does not compare
\* the names with each other.
NameConfigs ==
    {Config("tok", RepoName, f, "T", "B", b, h) :
        f \in {"main", "rev-base", "rev-head"},
        b \in {"main", "rev-base", "rev-head"},
        h \in {"main", "rev-base", "rev-head"}}

\* Configurations that differ in the token and in the repository name: empty,
\* without a slash, with a slash and no name or no owner, owner/name.
RepoConfigs ==
    {Config(t, r, "main", "T", "B", "rev-base", "rev-head") :
        t \in Tokens, r \in {"", "norepo", "o/", "/r", RepoName}}

\* The options NewFullPullRequestCreator may be handed: each names the field
\* its With function sets and carries the value, which may be empty.
OptionFields == {"Token", "FullRepoBranch", "Title", "Body", "BaseBranch", "HeadBranch"}
Options == {[field |-> fl, value |-> v] : fl \in OptionFields, v \in {"", "x", "y"}}
OptionLists == UNION {[1..n -> Options] : n \in 0..MaxOptions}

\* The arguments of NewFullPullRequestCreator: the repository and the options.
OptionConfigs == {[Repo |-> r, Options |-> o] : r \in {"", RepoName}, o \in OptionLists}

\* The integration tests of the Git Operations: each runs a round trip
\* against the repository (the branch is held in BaseBranch).
IntegrationTests == {"TestCreateOrphanBranchIntegration",
                     "TestCreateEmptyTreeCommitIntegration"}

EntryConfigs(e) ==
    CASE e = "Create" -> CreateConfigs \cup PairConfigs \cup NameConfigs \cup RepoConfigs
      [] e = "CreateFullPullRequest" ->
             CFPRConfigs \cup PairConfigs \cup NameConfigs
                 \cup {f \in RepoConfigs : NewRepo(f.Repo, f.Token) = NoErr}
      [] e = "CreateOrphanBranch" -> COBConfigs
      [] e \in GitOperations -> OpConfigs
      [] e = "NewFullPullRequestCreatorFromArgs" -> ArgConfigs
      [] e \in IntegrationTests -> COBConfigs
      [] e = "RunCLI" -> CLIConfigs
      [] e = "NewFullPullRequestCreator" -> OptionConfigs

Entries == {"Create", "CreateFullPullRequest", "CreateOrphanBranch"}

FirstPC(e) ==
    CASE e = "Create" -> "Validate"
      [] e = "CreateFullPullRequest" -> "BranchExistsFull"
      [] e = "CreateOrphanBranch" -> "CreateEmptyTreeCommit"
      [] e \in GitOperations -> "Op"
      [] e \in {"NewFullPullRequestCreatorFromArgs", "RunCLI"} -> "Parse"
      [] e = "NewFullPullRequestCreator" -> "Options"
      [] e = "TestCreateOrphanBranchIntegration" -> "BranchExists"
      [] e = "TestCreateEmptyTreeCommitIntegration" -> "CreateEmptyTreeCommit"
      [] OTHER -> "idle"

\* The zero value of the entry point's result (a nil *FullPullRequestCreator
\* is held as the struct with no field set).
ZeroOf(e) ==
    IF e \in {"CreateFullPullRequest", "CreatePullRequestNumber"} THEN 0
    ELSE IF e \in Lookups THEN FALSE
    ELSE IF e \in {"NewFullPullRequestCreatorFromArgs", "NewFullPullRequestCreator"}
        THEN IdleConfig
    ELSE ""
Zero(p) == ZeroOf(entry[p])

NoLocalRefs == [b \in BranchNames |-> Absent]

\* The repository before the run: absent, or holding any of the branches.
InitRemote ==
    /\ rRepoExists \in BOOLEAN
    /\ rBranches \in [BranchNames -> {Absent, MainCommit, OldCommit}]
    /\ rBranches["main"] \in {Absent, MainCommit}
    /\ rBranches["rev-base"] \in {Absent, OldCommit}
    /\ rBranches["rev-head"] \in {Absent, OldCommit}
    /\ rBranches["alt-base"] = Absent /\ rBranches["alt-head"] = Absent
    /\ ~rRepoExists => \A b \in BranchNames : rBranches[b] = Absent
    /\ rCommits = {rBranches[b] : b \in BranchNames} \ {Absent}
    /\ rPRs = {}
    /\ created = [p \in AllProcs |-> {}]

\* The command before it exits: on tells whether p was started by RunCLI.
Running(on) == [on |-> on, exited |-> FALSE, status |-> 0, stdout |-> "", stderr |-> NoErr]

InitProcs(active, entries, configs) ==
    /\ procs = active
    /\ \E e \in [active -> entries], c \in [active -> configs] :
          /\ \A p \in active : c[p] \in EntryConfigs(e[p])
          /\ entry = [p \in AllProcs |-> IF p \in active THEN e[p] ELSE "none"]
          /\ cfg = [p \in AllProcs |-> IF p \in active THEN c[p] ELSE IdleConfig]
    /\ pc = [p \in AllProcs |-> FirstPC(entry[p])]
    /\ calls = [p \in AllProcs |-> <<>>]
    /\ emptyCommit = [p \in AllProcs |-> ""]
    /\ idx = [p \in AllProcs |-> 0]
    /\ localRefs = [p \in AllProcs |-> NoLocalRefs]
    /\ ret = [p \in AllProcs |-> [val |-> ZeroOf(entry[p]), err |-> NoErr]]
    /\ toolCalls = [p \in AllProcs |-> <<>>]
    /\ cli = [p \in AllProcs |-> Running(entry[p] = "RunCLI")]

Init == InitProcs({1}, Entries, CreateConfigs \cup COBConfigs) /\ InitRemote

\* ------------------------------------------------------------------ helpers

\* One issued operation: its name, its arguments, and the response received
\* (NoResp for a git command).
Call(op, args, resp) == [op |-> op, args |-> args, resp |-> resp]

\* A request header that leaves the token out.
AuthorizationHeader_Anonymous(token) == <<"token", "">>

\* The Authorization header MakeAPIRequest and MakeAPIRequestWithData add to
\* every request: fmt.Sprintf("token %s", c.token), held as scheme and token.
AuthorizationHeader(token) == <<"token", token>>

\* One request handed to http.Client.Do by a client holding token, with the
\* response received.
Request(token, op, args, resp) ==
    [op |-> op, args |-> args, resp |-> resp, auth |-> AuthorizationHeader(token)]

\* Process p issues a request and receives resp.  The client is the one
\* NewRepo built from the configured token.
Issue(p, op, args, resp) ==
    calls' = [calls EXCEPT ![p] = Append(@, Request(cfg[p].Token, op, args, resp))]

\* What RunGitCommand hands back: whether the command failed, and its output.
GitResult(failed, out) ==
    [neterr |-> FALSE, status |-> IF failed THEN 1 ELSE 0, decodes |-> TRUE, field |-> out]

\* Process p runs a git command (RunGitCommand) with result res.
RunGit(p, op, args, res) ==
    calls' = [calls EXCEPT ![p] = Append(@, Call(op, args, res))]

Goto(p, label) ==
    /\ pc' = [pc EXCEPT ![p] = label]
    /\ UNCHANGED ret

\* return v, e
Return(p, v, e) ==
    /\ pc' = [pc EXCEPT ![p] = "done"]
    /\ ret' = [ret EXCEPT ![p] = [val |-> v, err |-> e]]

\* An existence check that takes a failed lookup for "the branch is absent".
CheckBranch_ErrorIsAbsent(p, branch, wanted, failure, next) ==
    \E resp \in BranchExistsResponses(branch) :
        LET res == BranchExists(resp, cfg[p].Repo, branch) IN
        /\ Issue(p, "BranchExists", <<branch>>, resp)
        /\ IF res.err = NoErr /\ res.ok # wanted THEN Return(p, Zero(p), failure)
           ELSE IF res.err # NoErr /\ wanted THEN Return(p, Zero(p), res.err)
           ELSE Goto(p, next)
        /\ UNCHANGED <<progVars, remoteVars, emptyCommit, idx, localRefs, toolCalls>>

\* One existence check of the workflow: look the branch up, pass the error
\* on, fail with absentErr / presentErr when the answer is not the wanted
\* one, else go on.
CheckBranch(p, branch, wanted, failure, next) ==
    \E resp \in BranchExistsResponses(branch) :
        LET res == BranchExists(resp, cfg[p].Repo, branch) IN
        /\ Issue(p, "BranchExists", <<branch>>, resp)
        /\ IF res.err # NoErr THEN Return(p, Zero(p), res.err)
           ELSE IF res.ok # wanted THEN Return(p, Zero(p), failure)
           ELSE Goto(p, next)
        /\ UNCHANGED <<progVars, remoteVars, emptyCommit, idx, localRefs, toolCalls>>

FullBranchMissing(p) ==
    Err("full repository branch does not exist in repository", "",
        <<cfg[p].FullRepoBranch, cfg[p].Repo>>, 0)
BaseBranchPresent(p) ==
    Err("base branch already exists in repository", "",
        <<cfg[p].BaseBranch, cfg[p].Repo>>, 0)
HeadBranchPresent(p) ==
    Err("head branch already exists in repository", "",
        <<cfg[p].HeadBranch, cfg[p].Repo>>, 0)

\* ------------------------------------ FullPullRequestCreator.Create (part_008)

\* Validation that forgets the body.
CreateValidation_NoBodyCheck(f) ==
    IF f.FullRepoBranch = "" THEN Err("the full repo branch cannot be empty", "", <<>>, 0)
    ELSE IF f.BaseBranch = "" THEN Err("the base branch cannot be empty", "", <<>>, 0)
    ELSE IF f.HeadBranch = "" THEN Err("the head branch cannot be empty", "", <<>>, 0)
    ELSE IF f.Title = "" THEN Err("the title cannot be empty", "", <<>>, 0)
    ELSE NewRepo(f.Repo, f.Token)

\* The checks of Create before the first request: the five fields, then NewRepo.
CreateValidation(f) ==
    IF f.FullRepoBranch = "" THEN Err("the full repo branch cannot be empty", "", <<>>, 0)
    ELSE IF f.BaseBranch = "" THEN Err("the base branch cannot be empty", "", <<>>, 0)
    ELSE IF f.HeadBranch = "" THEN Err("the head branch cannot be empty", "", <<>>, 0)
    ELSE IF f.Title = "" THEN Err("the title cannot be empty", "", <<>>, 0)
    ELSE IF f.Body = "" THEN Err("the body cannot be empty", "", <<>>, 0)
    ELSE NewRepo(f.Repo, f.Token)

Create_Validate(p) ==
    /\ entry[p] = "Create" /\ pc[p] = "Validate"
    /\ IF CreateValidation(cfg[p]) # NoErr
          THEN Return(p, "", CreateValidation(cfg[p]))
          ELSE Goto(p, "Exists")
    /\ UNCHANGED <<progVars, remoteVars, calls, emptyCommit, idx,
                   localRefs, toolCalls>>

RepoMissing(p) ==
    Err("repository does not exist or the access token does not provide access", "",
        <<cfg[p].Repo>>, 0)

\* Exists whose answer is dropped: only its error stops the workflow.
Create_Exists_ErrorOnly(p) ==
    /\ entry[p] = "Create" /\ pc[p] = "Exists"
    /\ \E resp \in ExistsResponses(cfg[p].Repo) :
          LET res == Exists(resp, cfg[p].Repo) IN
          /\ Issue(p, "Exists", <<>>, resp)
          /\ IF res.err # NoErr THEN Return(p, "", res.err)
             ELSE Goto(p, "BranchExistsFull")
    /\ UNCHANGED <<progVars, remoteVars, emptyCommit, idx, localRefs, toolCalls>>

\* Exists that asks again after a failed request.
Create_Exists_Retry(p) ==
    /\ entry[p] = "Create" /\ pc[p] = "Exists"
    /\ \E resp \in ExistsResponses(cfg[p].Repo) :
          LET res == Exists(resp, cfg[p].Repo) IN
          /\ Issue(p, "Exists", <<>>, resp)
          /\ IF res.err # NoErr /\ Len(calls[p]) < 1 THEN Goto(p, "Exists")
             ELSE IF res.err # NoErr THEN Return(p, "", res.err)
             ELSE IF ~res.ok THEN Return(p, "", RepoMissing(p))
             ELSE Goto(p, "BranchExistsFull")
    /\ UNCHANGED <<progVars, remoteVars, emptyCommit, idx, localRefs, toolCalls>>

Create_Exists(p) ==
    /\ entry[p] = "Create" /\ pc[p] = "Exists"
    /\ \E resp \in ExistsResponses(cfg[p].Repo) :
          LET res == Exists(resp, cfg[p].Repo) IN
          /\ Issue(p, "Exists", <<>>, resp)
          /\ IF res.err # NoErr THEN Return(p, "", res.err)
             ELSE IF ~res.ok THEN Return(p, "", RepoMissing(p))
             ELSE Goto(p, "BranchExistsFull")
    /\ UNCHANGED <<progVars, remoteVars, emptyCommit, idx, localRefs, toolCalls>>

\* The source check that only looks at the error of BranchExists.
Create_BranchExistsFull_ErrorOnly(p) ==
    /\ entry[p] = "Create" /\ pc[p] = "BranchExistsFull"
    /\ \E resp \in BranchExistsResponses(cfg[p].FullRepoBranch) :
          LET res == BranchExists(resp, cfg[p].Repo, cfg[p].FullRepoBranch) IN
          /\ Issue(p, "BranchExists", <<cfg[p].FullRepoBranch>>, resp)
          /\ IF res.err # NoErr THEN Return(p, "", res.err)
             ELSE Goto(p, "BranchExistsBase")
    /\ UNCHANGED <<progVars, remoteVars, emptyCommit, idx, localRefs, toolCalls>>

Create_BranchExistsFull(p) ==
    /\ entry[p] = "Create" /\ pc[p] = "BranchExistsFull"
    /\ CheckBranch(p, cfg[p].FullRepoBranch, TRUE, FullBranchMissing(p), "BranchExistsBase")

Create_BranchExistsBase(p) ==
    /\ entry[p] = "Create" /\ pc[p] = "BranchExistsBase"
    /\ CheckBranch(p, cfg[p].BaseBranch, FALSE, BaseBranchPresent(p), "BranchExistsHead")

Create_BranchExistsHead(p) ==
    /\ entry[p] = "Create" /\ pc[p] = "BranchExistsHead"
    /\ CheckBranch(p, cfg[p].HeadBranch, FALSE, HeadBranchPresent(p), "MkdirTemp")

\* --- repo.CreateOrphanBranches(f.BaseBranch, f.HeadBranch)

\* The branch names handed over head first.
branchNames_HeadFirst(p) == <<cfg[p].HeadBranch, cfg[p].BaseBranch>>

branchNames(p) == <<cfg[p].BaseBranch, cfg[p].HeadBranch>>

GitErr(cmd) == Err("git command returned error", cmd, <<>>, 0)

EmptyShaErr == Err("empty commit sha returned after creating empty-tree commit", "", <<>>, 0)

\* The argument checks and os.MkdirTemp.
COBs_MkdirTemp(p) ==
    /\ entry[p] = "Create" /\ pc[p] = "MkdirTemp"
    /\ IF Len(branchNames(p)) = 0
          THEN Return(p, "", Err("please supply at least one branch name", "", <<>>, 0))
       ELSE IF \E i \in 1..Len(branchNames(p)) : branchNames(p)[i] = ""
          THEN Return(p, "", Err("branchName cannot be empty", "", <<>>, 0))
       ELSE \E made \in BOOLEAN :
               IF made THEN Goto(p, "GitClone")
               ELSE Return(p, "", Err("MkdirTemp failed", "", <<>>, 0))
    /\ UNCHANGED <<progVars, remoteVars, calls, emptyCommit, idx,
                   localRefs, toolCalls>>

\* git clone ssh://git@github.com/<r>: the clone holds the checked-out
\* default branch.
COBs_GitClone(p) ==
    /\ entry[p] = "Create" /\ pc[p] = "GitClone"
    /\ \E cloned \in {c \in BOOLEAN : c => rRepoExists} :
          /\ RunGit(p, "GitClone", <<cfg[p].Repo>>, GitResult(~cloned, ""))
          /\ IF cloned
                THEN /\ localRefs' = [localRefs EXCEPT
                                        ![p] = [NoLocalRefs EXCEPT !["main"] = rBranches["main"]]]
                     /\ Goto(p, "GitCommitTree")
                ELSE /\ UNCHANGED localRefs
                     /\ Return(p, "", GitErr("clone"))
    /\ UNCHANGED <<progVars, remoteVars, emptyCommit, idx, toolCalls>>

\* git commit-tree whose output is used without the check for the empty sha.
COBs_GitCommitTree_EmptyUnchecked(p) ==
    /\ entry[p] = "Create" /\ pc[p] = "GitCommitTree"
    /\ \E res \in {GitResult(TRUE, ""), GitResult(FALSE, ""), GitResult(FALSE, EmptyTreeSha(p))} :
          /\ RunGit(p, "GitCommitTree", <<>>, res)
          /\ IF res.status # 0
                THEN /\ Return(p, "", GitErr("commit-tree"))
                     /\ localRefs' = [localRefs EXCEPT ![p] = NoLocalRefs]
                     /\ UNCHANGED <<emptyCommit, idx>>
             ELSE /\ emptyCommit' = [emptyCommit EXCEPT ![p] = res.field]
                  /\ idx' = [idx EXCEPT ![p] = 1]
                  /\ Goto(p, "GitBranch")
                  /\ UNCHANGED localRefs
    /\ UNCHANGED <<progVars, remoteVars, toolCalls>>

\* git commit-tree 4b825dc... -m "empty-tree commit": prints the new sha.
COBs_GitCommitTree(p) ==
    /\ entry[p] = "Create" /\ pc[p] = "GitCommitTree"
    /\ \E res \in {GitResult(TRUE, ""), GitResult(FALSE, ""), GitResult(FALSE, EmptyTreeSha(p))} :
          /\ RunGit(p, "GitCommitTree", <<>>, res)
          /\ IF res.status # 0
                THEN /\ Return(p, "", GitErr("commit-tree"))
                     /\ localRefs' = [localRefs EXCEPT ![p] = NoLocalRefs]
                     /\ UNCHANGED <<emptyCommit, idx>>
             ELSE IF res.field = ""
                THEN /\ Return(p, "", EmptyShaErr)
                     /\ localRefs' = [localRefs EXCEPT ![p] = NoLocalRefs]
                     /\ UNCHANGED <<emptyCommit, idx>>
             ELSE /\ emptyCommit' = [emptyCommit EXCEPT ![p] = res.field]
                  /\ idx' = [idx EXCEPT ![p] = 1]
                  /\ Goto(p, "GitBranch")
                  /\ UNCHANGED localRefs
    /\ UNCHANGED <<progVars, remoteVars, toolCalls>>

\* git branch that moves a branch the clone already holds (git branch -f).
GitBranchOK_Force(p, name) == name \in BranchNames

\* git branch <name> <sha> in the clone of p succeeds.
GitBranchOK(p, name) == name \in BranchNames /\ localRefs[p][name] = Absent

\* git branch run in one directory all executions share, in place of the
\* directory os.MkdirTemp makes for each.
COBs_GitBranch_SharedClone(p) ==
    /\ entry[p] = "Create" /\ pc[p] = "GitBranch"
    /\ LET branchName == branchNames(p)[idx[p]] IN
       /\ RunGit(p, "GitBranch", <<branchName, emptyCommit[p]>>,
                 GitResult(~GitBranchOK(p, branchName), ""))
       /\ IF GitBranchOK(p, branchName)
             THEN /\ localRefs' = [q \in AllProcs |->
                                      [localRefs[q] EXCEPT ![branchName] = emptyCommit[p]]]
                  /\ idx' = [idx EXCEPT ![p] = @ + 1]
                  /\ Goto(p, IF idx[p] = Len(branchNames(p)) THEN "GitPush" ELSE "GitBranch")
             ELSE /\ localRefs' = [localRefs EXCEPT ![p] = NoLocalRefs]
                  /\ UNCHANGED idx
                  /\ Return(p, "", GitErr("branch"))
    /\ UNCHANGED <<progVars, remoteVars, emptyCommit, toolCalls>>

\* One turn of the loop: git branch <branchName> <commitSha>, which fails
\* when the clone already has the branch.
COBs_GitBranch(p) ==
    /\ entry[p] = "Create" /\ pc[p] = "GitBranch"
    /\ LET branchName == branchNames(p)[idx[p]] IN
       /\ RunGit(p, "GitBranch", <<branchName, emptyCommit[p]>>,
                 GitResult(~GitBranchOK(p, branchName), ""))
       /\ IF GitBranchOK(p, branchName)
             THEN /\ localRefs' = [localRefs EXCEPT ![p][branchName] = emptyCommit[p]]
                  /\ idx' = [idx EXCEPT ![p] = @ + 1]
                  /\ Goto(p, IF idx[p] = Len(branchNames(p)) THEN "GitPush" ELSE "GitBranch")
             ELSE /\ localRefs' = [localRefs EXCEPT ![p] = NoLocalRefs]
                  /\ UNCHANGED idx
                  /\ Return(p, "", GitErr("branch"))
    /\ UNCHANGED <<progVars, remoteVars, emptyCommit, toolCalls>>

\* The remote takes the ref of a pushed branch when it has no such branch.
Accepted(name) == RBranch(name) = Absent

\* The branches of p's push the remote has taken.
Pushed(p) == {b \in BranchNames : Ref(b, emptyCommit[p]) \in created[p]}

\* git push origin <branchNames>, connecting: the command fails when the
\* connection does.  The temporary clone is removed when
\* CreateOrphanBranches returns.
COBs_GitPush(p) ==
    /\ entry[p] = "Create" /\ pc[p] = "GitPush"
    /\ \E connected \in {c \in BOOLEAN : c => rRepoExists} :
          IF connected
             THEN /\ idx' = [idx EXCEPT ![p] = 1]
                  /\ Goto(p, "GitPushRef")
                  /\ UNCHANGED <<calls, localRefs>>
             ELSE /\ RunGit(p, "GitPush", branchNames(p), GitResult(TRUE, ""))
                  /\ localRefs' = [localRefs EXCEPT ![p] = NoLocalRefs]
                  /\ Return(p, "", GitErr("push"))
                  /\ UNCHANGED idx
    /\ UNCHANGED <<progVars, remoteVars, emptyCommit, toolCalls>>

\* The remote handles the refs of a push one by one, each taken or
\* rejected on its own; after the last one git push reports failure when
\* any ref was rejected.
COBs_GitPushRef(p) ==
    /\ entry[p] = "Create" /\ pc[p] = "GitPushRef"
    /\ LET name == branchNames(p)[idx[p]]
           pushed == IF Accepted(name) THEN Pushed(p) \cup {name} ELSE Pushed(p)
           names == {branchNames(p)[i] : i \in 1..Len(branchNames(p))}
       IN  /\ IF Accepted(name)
                 THEN /\ SetBranch(p, name, localRefs[p][name])
                      /\ AddCommit(emptyCommit[p])
                 ELSE UNCHANGED <<rBranches, created, rCommits>>
           /\ IF idx[p] < Len(branchNames(p))
                 THEN /\ idx' = [idx EXCEPT ![p] = @ + 1]
                      /\ Goto(p, "GitPushRef")
                      /\ UNCHANGED <<calls, localRefs>>
                 ELSE /\ RunGit(p, "GitPush", branchNames(p),
                                GitResult(pushed # names,
                                          IF pushed # names THEN "rejected" ELSE ""))
                      /\ localRefs' = [localRefs EXCEPT ![p] = NoLocalRefs]
                      /\ IF pushed = names THEN Goto(p, "MergeBranch")
                                           ELSE Return(p, "", GitErr("push"))
                      /\ UNCHANGED idx
    /\ UNCHANGED <<progVars, rRepoExists, rPRs, emptyCommit, toolCalls>>

\* The merge step with its error dropped.
Create_MergeBranch_ErrorDropped(p) ==
    /\ entry[p] = "Create" /\ pc[p] = "MergeBranch"
    /\ \E o \in MergeOutcomes(cfg[p].HeadBranch, cfg[p].FullRepoBranch) :
          /\ Issue(p, "MergeBranch", <<cfg[p].HeadBranch, cfg[p].FullRepoBranch>>, o.resp)
          /\ IF o.applied
                THEN /\ rBranches' = [rBranches EXCEPT ![cfg[p].HeadBranch] =
                                        MergeSha(@, RBranch(cfg[p].FullRepoBranch))]
                     /\ AddCommit(MergeSha(RBranch(cfg[p].HeadBranch),
                                            RBranch(cfg[p].FullRepoBranch)))
                ELSE UNCHANGED <<rBranches, rCommits>>
          /\ Goto(p, "CreatePullRequest")
    /\ UNCHANGED <<progVars, rRepoExists, rPRs, created, emptyCommit, idx,
                   localRefs, toolCalls>>

\* r.MergeBranch(f.HeadBranch, f.FullRepoBranch)
\* The merge step with the two branches exchanged: the head branch is merged
\* into the source branch.
Create_MergeBranch_IntoSource(p) ==
    /\ entry[p] = "Create" /\ pc[p] = "MergeBranch"
    /\ \E o \in MergeOutcomes(cfg[p].FullRepoBranch, cfg[p].HeadBranch) :
          LET err == MergeBranch(o.resp, cfg[p].Repo, cfg[p].FullRepoBranch, cfg[p].HeadBranch) IN
          /\ Issue(p, "MergeBranch", <<cfg[p].FullRepoBranch, cfg[p].HeadBranch>>, o.resp)
          /\ IF o.applied
                THEN /\ rBranches' = [rBranches EXCEPT ![cfg[p].FullRepoBranch] =
                                        MergeSha(@, RBranch(cfg[p].HeadBranch))]
                     /\ AddCommit(MergeSha(RBranch(cfg[p].FullRepoBranch),
                                            RBranch(cfg[p].HeadBranch)))
                ELSE UNCHANGED <<rBranches, rCommits>>
          /\ IF err # NoErr THEN Return(p, "", err) ELSE Goto(p, "CreatePullRequest")
    /\ UNCHANGED <<progVars, rRepoExists, rPRs, created, emptyCommit, idx,
                   localRefs, toolCalls>>

Create_MergeBranch(p) ==
    /\ entry[p] = "Create" /\ pc[p] = "MergeBranch"
    /\ \E o \in MergeOutcomes(cfg[p].HeadBranch, cfg[p].FullRepoBranch) :
          LET err == MergeBranch(o.resp, cfg[p].Repo, cfg[p].HeadBranch, cfg[p].FullRepoBranch) IN
          /\ Issue(p, "MergeBranch", <<cfg[p].HeadBranch, cfg[p].FullRepoBranch>>, o.resp)
          /\ IF o.applied
                THEN /\ rBranches' = [rBranches EXCEPT ![cfg[p].HeadBranch] =
                                        MergeSha(@, RBranch(cfg[p].FullRepoBranch))]
                     /\ AddCommit(MergeSha(RBranch(cfg[p].HeadBranch),
                                            RBranch(cfg[p].FullRepoBranch)))
                ELSE UNCHANGED <<rBranches, rCommits>>
          /\ IF err # NoErr THEN Return(p, "", err) ELSE Goto(p, "CreatePullRequest")
    /\ UNCHANGED <<progVars, rRepoExists, rPRs, created, emptyCommit, idx,
                   localRefs, toolCalls>>

\* r.CreatePullRequest(f.Title, f.Body, f.BaseBranch, f.HeadBranch)
Create_CreatePullRequest(p) ==
    /\ entry[p] = "Create" /\ pc[p] = "CreatePullRequest"
    /\ \E o \in CreatePROutcomes(cfg[p].BaseBranch, cfg[p].HeadBranch, PRURLOf(NextPRNumber)) :
          LET res == CreatePullRequestURL(o.resp, cfg[p].Repo, cfg[p].BaseBranch,
                                          cfg[p].HeadBranch) IN
          /\ Issue(p, "CreatePullRequest",
                   <<cfg[p].Title, cfg[p].Body, cfg[p].BaseBranch, cfg[p].HeadBranch>>, o.resp)
          /\ IF o.applied
                THEN AddPR(p, cfg[p].Title, cfg[p].Body, cfg[p].BaseBranch, cfg[p].HeadBranch)
                ELSE UNCHANGED rPRs
          /\ IF res.err # NoErr THEN Return(p, "", res.err) ELSE Return(p, res.val, NoErr)
    /\ UNCHANGED <<progVars, rRepoExists, rBranches, rCommits, created, emptyCommit,
                   idx, localRefs, toolCalls>>

\* --------------------------------------- repo.CreateFullPullRequest (prme.go)

\* The first step preceded by a comparison of the base and head names.
CFPR_BranchExistsFull_NamesCompared(p) ==
    /\ entry[p] = "CreateFullPullRequest" /\ pc[p] = "BranchExistsFull"
    /\ IF cfg[p].BaseBranch = cfg[p].HeadBranch
          THEN /\ Return(p, 0, Err("base and head branch are the same", "",
                                   <<cfg[p].BaseBranch>>, 0))
               /\ UNCHANGED <<progVars, remoteVars, calls, emptyCommit, idx, localRefs,
                              toolCalls>>
          ELSE CheckBranch(p, cfg[p].FullRepoBranch, TRUE, FullBranchMissing(p),
                           "BranchExistsBase")

CFPR_BranchExistsFull(p) ==
    /\ entry[p] = "CreateFullPullRequest" /\ pc[p] = "BranchExistsFull"
    /\ CheckBranch(p, cfg[p].FullRepoBranch, TRUE, FullBranchMissing(p), "BranchExistsBase")

\* The base check that only looks at the error of BranchExists.
CFPR_BranchExistsBase_ErrorOnly(p) ==
    /\ entry[p] = "CreateFullPullRequest" /\ pc[p] = "BranchExistsBase"
    /\ \E resp \in BranchExistsResponses(cfg[p].BaseBranch) :
          LET res == BranchExists(resp, cfg[p].Repo, cfg[p].BaseBranch) IN
          /\ Issue(p, "BranchExists", <<cfg[p].BaseBranch>>, resp)
          /\ IF res.err # NoErr THEN Return(p, 0, res.err)
             ELSE Goto(p, "BranchExistsHead")
    /\ UNCHANGED <<progVars, remoteVars, emptyCommit, idx, localRefs, toolCalls>>

CFPR_BranchExistsBase(p) ==
    /\ entry[p] = "CreateFullPullRequest" /\ pc[p] = "BranchExistsBase"
    /\ CheckBranch(p, cfg[p].BaseBranch, FALSE, BaseBranchPresent(p), "BranchExistsHead")

\* The head check that only looks at the error of BranchExists.
CFPR_BranchExistsHead_ErrorOnly(p) ==
    /\ entry[p] = "CreateFullPullRequest" /\ pc[p] = "BranchExistsHead"
    /\ \E resp \in BranchExistsResponses(cfg[p].HeadBranch) :
          LET res == BranchExists(resp, cfg[p].Repo, cfg[p].HeadBranch) IN
          /\ Issue(p, "BranchExists", <<cfg[p].HeadBranch>>, resp)
          /\ IF res.err # NoErr THEN Return(p, 0, res.err)
             ELSE Goto(p, "CreateEmptyTreeCommit")
    /\ UNCHANGED <<progVars, remoteVars, emptyCommit, idx, localRefs, toolCalls>>

CFPR_BranchExistsHead(p) ==
    /\ entry[p] = "CreateFullPullRequest" /\ pc[p] = "BranchExistsHead"
    /\ CheckBranch(p, cfg[p].HeadBranch, FALSE, HeadBranchPresent(p), "CreateEmptyTreeCommit")

\* emptyCommit, err := CreateEmptyTreeCommit(); on success go to next.
CommitStep(p, next) ==
    \E o \in CreateCommitOutcomes(p) :
        LET res == CreateEmptyTreeCommit(o.resp, cfg[p].Repo) IN
        /\ Issue(p, "CreateEmptyTreeCommit", <<>>, o.resp)
        /\ IF o.applied THEN AddCommit(EmptyTreeSha(p)) ELSE UNCHANGED rCommits
        /\ IF res.err # NoErr
              THEN /\ Return(p, Zero(p), res.err)
                   /\ UNCHANGED emptyCommit
              ELSE /\ emptyCommit' = [emptyCommit EXCEPT ![p] = res.val]
                   /\ Goto(p, next)
        /\ UNCHANGED <<progVars, rRepoExists, rBranches, rPRs, created, idx,
                       localRefs, toolCalls>>

\* A branch step that goes on when the creation was refused.
BranchStep_RefusalIgnored(p, branch, next) ==
    \E o \in CreateRefOutcomes(branch, emptyCommit[p]) :
        LET err == CreateBranch(o.resp, cfg[p].Repo, branch, emptyCommit[p]) IN
        /\ Issue(p, "CreateBranch", <<branch, emptyCommit[p]>>, o.resp)
        /\ IF o.applied THEN SetBranch(p, branch, emptyCommit[p])
                        ELSE UNCHANGED <<rBranches, created>>
        /\ IF err # NoErr /\ err.status # StatusUnprocessableEntity
              THEN Return(p, Zero(p), err)
              ELSE IF next = "done" THEN Return(p, Zero(p), NoErr)
              ELSE Goto(p, next)
        /\ UNCHANGED <<progVars, rRepoExists, rCommits, rPRs, emptyCommit, idx,
                       localRefs, toolCalls>>

\* err = CreateBranch(branch, emptyCommit); on success go to next.
BranchStep(p, branch, next) ==
    \E o \in CreateRefOutcomes(branch, emptyCommit[p]) :
        LET err == CreateBranch(o.resp, cfg[p].Repo, branch, emptyCommit[p]) IN
        /\ Issue(p, "CreateBranch", <<branch, emptyCommit[p]>>, o.resp)
        /\ IF o.applied THEN SetBranch(p, branch, emptyCommit[p])
                        ELSE UNCHANGED <<rBranches, created>>
        /\ IF err # NoErr THEN Return(p, Zero(p), err)
                          ELSE IF next = "done" THEN Return(p, Zero(p), NoErr)
                          ELSE Goto(p, next)
        /\ UNCHANGED <<progVars, rRepoExists, rCommits, rPRs, emptyCommit, idx,
                       localRefs, toolCalls>>

CFPR_CreateEmptyTreeCommit(p) ==
    /\ entry[p] = "CreateFullPullRequest" /\ pc[p] = "CreateEmptyTreeCommit"
    /\ CommitStep(p, "CreateBranchBase")

CFPR_CreateBranchBase(p) ==
    /\ entry[p] = "CreateFullPullRequest" /\ pc[p] = "CreateBranchBase"
    /\ BranchStep(p, cfg[p].BaseBranch, "CreateBranchHead")

\* The head branch started from the tip of the source branch.
CFPR_CreateBranchHead_FromSource(p) ==
    /\ entry[p] = "CreateFullPullRequest" /\ pc[p] = "CreateBranchHead"
    /\ \E o \in CreateRefOutcomes(cfg[p].HeadBranch, RBranch(cfg[p].FullRepoBranch)) :
          LET err == CreateBranch(o.resp, cfg[p].Repo, cfg[p].HeadBranch,
                                  RBranch(cfg[p].FullRepoBranch)) IN
          /\ Issue(p, "CreateBranch", <<cfg[p].HeadBranch, RBranch(cfg[p].FullRepoBranch)>>,
                   o.resp)
          /\ IF o.applied THEN SetBranch(p, cfg[p].HeadBranch, RBranch(cfg[p].FullRepoBranch))
                          ELSE UNCHANGED <<rBranches, created>>
          /\ IF err # NoErr THEN Return(p, 0, err) ELSE Goto(p, "MergeBranch")
    /\ UNCHANGED <<progVars, rRepoExists, rCommits, rPRs, emptyCommit, idx,
                   localRefs, toolCalls>>

CFPR_CreateBranchHead(p) ==
    /\ entry[p] = "CreateFullPullRequest" /\ pc[p] = "CreateBranchHead"
    /\ BranchStep(p, cfg[p].HeadBranch, "MergeBranch")

\* MergeBranch with its arguments exchanged: the source branch as target.
CFPR_MergeBranch_Swapped(p) ==
    /\ entry[p] = "CreateFullPullRequest" /\ pc[p] = "MergeBranch"
    /\ \E o \in MergeOutcomes(cfg[p].FullRepoBranch, cfg[p].HeadBranch) :
          LET err == MergeBranch(o.resp, cfg[p].Repo, cfg[p].FullRepoBranch, cfg[p].HeadBranch) IN
          /\ Issue(p, "MergeBranch", <<cfg[p].FullRepoBranch, cfg[p].HeadBranch>>, o.resp)
          /\ IF o.applied
                THEN /\ rBranches' = [rBranches EXCEPT ![cfg[p].FullRepoBranch] =
                                        MergeSha(@, RBranch(cfg[p].HeadBranch))]
                     /\ AddCommit(MergeSha(RBranch(cfg[p].FullRepoBranch),
                                           RBranch(cfg[p].HeadBranch)))
                ELSE UNCHANGED <<rBranches, rCommits>>
          /\ IF err # NoErr THEN Return(p, 0, err) ELSE Goto(p, "CreatePullRequest")
    /\ UNCHANGED <<progVars, rRepoExists, rPRs, created, emptyCommit, idx,
                   localRefs, toolCalls>>

\* r.MergeBranch(PRHeadBranch, fullRepoBranch)
\* MergeBranch asked again after a failure, once.
CFPR_MergeBranch_Retry(p) ==
    /\ entry[p] = "CreateFullPullRequest" /\ pc[p] = "MergeBranch"
    /\ \E o \in MergeOutcomes(cfg[p].HeadBranch, cfg[p].FullRepoBranch) :
          LET err == MergeBranch(o.resp, cfg[p].Repo, cfg[p].HeadBranch, cfg[p].FullRepoBranch) IN
          /\ Issue(p, "MergeBranch", <<cfg[p].HeadBranch, cfg[p].FullRepoBranch>>, o.resp)
          /\ IF o.applied
                THEN /\ rBranches' = [rBranches EXCEPT ![cfg[p].HeadBranch] =
                                        MergeSha(@, RBranch(cfg[p].FullRepoBranch))]
                     /\ AddCommit(MergeSha(RBranch(cfg[p].HeadBranch),
                                            RBranch(cfg[p].FullRepoBranch)))
                ELSE UNCHANGED <<rBranches, rCommits>>
          /\ IF err # NoErr /\ Len(calls[p]) < 7 THEN Goto(p, "MergeBranch")
             ELSE IF err # NoErr THEN Return(p, 0, err)
             ELSE Goto(p, "CreatePullRequest")
    /\ UNCHANGED <<progVars, rRepoExists, rPRs, created, emptyCommit, idx,
                   localRefs, toolCalls>>

CFPR_MergeBranch(p) ==
    /\ entry[p] = "CreateFullPullRequest" /\ pc[p] = "MergeBranch"
    /\ \E o \in MergeOutcomes(cfg[p].HeadBranch, cfg[p].FullRepoBranch) :
          LET err == MergeBranch(o.resp, cfg[p].Repo, cfg[p].HeadBranch, cfg[p].FullRepoBranch) IN
          /\ Issue(p, "MergeBranch", <<cfg[p].HeadBranch, cfg[p].FullRepoBranch>>, o.resp)
          /\ IF o.applied
                THEN /\ rBranches' = [rBranches EXCEPT ![cfg[p].HeadBranch] =
                                        MergeSha(@, RBranch(cfg[p].FullRepoBranch))]
                     /\ AddCommit(MergeSha(RBranch(cfg[p].HeadBranch),
                                            RBranch(cfg[p].FullRepoBranch)))
                ELSE UNCHANGED <<rBranches, rCommits>>
          /\ IF err # NoErr THEN Return(p, 0, err) ELSE Goto(p, "CreatePullRequest")
    /\ UNCHANGED <<progVars, rRepoExists, rPRs, created, emptyCommit, idx,
                   localRefs, toolCalls>>

\* CreatePullRequest called with the title and the body exchanged.
CFPR_CreatePullRequest_Exchanged(p) ==
    /\ entry[p] = "CreateFullPullRequest" /\ pc[p] = "CreatePullRequest"
    /\ \E o \in CreatePROutcomes(cfg[p].BaseBranch, cfg[p].HeadBranch, ToString(NextPRNumber)) :
          LET res == CreatePullRequestNumber(o.resp, cfg[p].Repo, cfg[p].BaseBranch,
                                             cfg[p].HeadBranch) IN
          /\ Issue(p, "CreatePullRequest",
                   <<cfg[p].Body, cfg[p].Title, cfg[p].BaseBranch, cfg[p].HeadBranch>>, o.resp)
          /\ IF o.applied
                THEN AddPR(p, cfg[p].Body, cfg[p].Title, cfg[p].BaseBranch, cfg[p].HeadBranch)
                ELSE UNCHANGED rPRs
          /\ IF res.err # NoErr THEN Return(p, 0, res.err) ELSE Return(p, res.val, NoErr)
    /\ UNCHANGED <<progVars, rRepoExists, rBranches, rCommits, created, emptyCommit,
                   idx, localRefs, toolCalls>>

\* CreatePullRequest that rolls back on failure: deletes the two branches.
CFPR_CreatePullRequest_Rollback(p) ==
    /\ entry[p] = "CreateFullPullRequest" /\ pc[p] = "CreatePullRequest"
    /\ \E o \in CreatePROutcomes(cfg[p].BaseBranch, cfg[p].HeadBranch, ToString(NextPRNumber)) :
          LET res == CreatePullRequestNumber(o.resp, cfg[p].Repo, cfg[p].BaseBranch,
                                             cfg[p].HeadBranch) IN
          /\ IF o.applied
                THEN AddPR(p, cfg[p].Title, cfg[p].Body, cfg[p].BaseBranch, cfg[p].HeadBranch)
                ELSE UNCHANGED rPRs
          /\ IF res.err # NoErr
                THEN /\ calls' = [calls EXCEPT ![p] =
                           @ \o <<Call("CreatePullRequest",
                                       <<cfg[p].Title, cfg[p].Body, cfg[p].BaseBranch,
                                         cfg[p].HeadBranch>>, o.resp),
                                  Call("DeleteBranch", <<cfg[p].HeadBranch>>,
                                       HTTP(StatusNoContent, FALSE, Absent)),
                                  Call("DeleteBranch", <<cfg[p].BaseBranch>>,
                                       HTTP(StatusNoContent, FALSE, Absent))>>]
                     /\ rBranches' = [b \in BranchNames |->
                           IF b \in {cfg[p].HeadBranch, cfg[p].BaseBranch}
                              THEN Absent ELSE rBranches[b]]
                     /\ Return(p, 0, res.err)
                ELSE /\ Issue(p, "CreatePullRequest",
                              <<cfg[p].Title, cfg[p].Body, cfg[p].BaseBranch,
                                cfg[p].HeadBranch>>, o.resp)
                     /\ UNCHANGED rBranches
                     /\ Return(p, res.val, NoErr)
    /\ UNCHANGED <<progVars, rRepoExists, rCommits, created, emptyCommit,
                   idx, localRefs, toolCalls>>

\* r.CreatePullRequest(PRTitle, PRBody, PRBaseBranch, PRHeadBranch)
CFPR_CreatePullRequest(p) ==
    /\ entry[p] = "CreateFullPullRequest" /\ pc[p] = "CreatePullRequest"
    /\ \E o \in CreatePROutcomes(cfg[p].BaseBranch, cfg[p].HeadBranch, ToString(NextPRNumber)) :
          LET res == CreatePullRequestNumber(o.resp, cfg[p].Repo, cfg[p].BaseBranch,
                                             cfg[p].HeadBranch) IN
          /\ Issue(p, "CreatePullRequest",
                   <<cfg[p].Title, cfg[p].Body, cfg[p].BaseBranch, cfg[p].HeadBranch>>, o.resp)
          /\ IF o.applied
                THEN AddPR(p, cfg[p].Title, cfg[p].Body, cfg[p].BaseBranch, cfg[p].HeadBranch)
                ELSE UNCHANGED rPRs
          /\ IF res.err # NoErr THEN Return(p, 0, res.err) ELSE Return(p, res.val, NoErr)
    /\ UNCHANGED <<progVars, rRepoExists, rBranches, rCommits, created, emptyCommit,
                   idx, localRefs, toolCalls>>

\* ------------------------------------------ client.CreateOrphanBranch (prme.go)

\* CreateOrphanBranch that goes on to CreateBranch whatever the commit call said.
COB_CreateEmptyTreeCommit_Unchecked(p) ==
    /\ entry[p] = "CreateOrphanBranch" /\ pc[p] = "CreateEmptyTreeCommit"
    /\ \E o \in CreateCommitOutcomes(p) :
          LET res == CreateEmptyTreeCommit(o.resp, cfg[p].Repo) IN
          /\ Issue(p, "CreateEmptyTreeCommit", <<>>, o.resp)
          /\ IF o.applied THEN AddCommit(EmptyTreeSha(p)) ELSE UNCHANGED rCommits
          /\ emptyCommit' = [emptyCommit EXCEPT ![p] = res.val]
          /\ Goto(p, "CreateBranch")
    /\ UNCHANGED <<progVars, rRepoExists, rBranches, rPRs, created, idx,
                   localRefs, toolCalls>>

COB_CreateEmptyTreeCommit(p) ==
    /\ entry[p] = "CreateOrphanBranch" /\ pc[p] = "CreateEmptyTreeCommit"
    /\ CommitStep(p, "CreateBranch")

COB_CreateBranch(p) ==
    /\ entry[p] = "CreateOrphanBranch" /\ pc[p] = "CreateBranch"
    /\ BranchStep(p, cfg[p].BaseBranch, "done")

\* --------------------------------------------------------------- cleanup
\* The auxiliary tooling (TestCreateFullPullRequestIntegration): after a
\* successful workflow, close the pull request, delete the head branch,
\* delete the base branch; stop at the first error.

Tool(p, op, args, resp) ==
    toolCalls' = [toolCalls EXCEPT ![p] = Append(@, Request(cfg[p].Token, op, args, resp))]

\* The pull request number the tooling closes: the returned number, or the
\* number in the returned URL.
ReturnedNumber(p) ==
    IF entry[p] = "CreateFullPullRequest" THEN ret[p].val
    ELSE IF \E n \in 1..(MaxPRs + 1) : PRURLOf(n) = ret[p].val
        THEN CHOOSE n \in 1..(MaxPRs + 1) : PRURLOf(n) = ret[p].val
    ELSE 0

Cleanup_ClosePullRequest(p) ==
    /\ entry[p] \in {"Create", "CreateFullPullRequest"}
    /\ pc[p] = "done" /\ ret[p].err = NoErr
    /\ \E o \in ClosePROutcomes(ReturnedNumber(p)) :
          LET err == ClosePullRequest(o.resp, cfg[p].Repo, ReturnedNumber(p)) IN
          /\ Tool(p, "ClosePullRequest", <<ReturnedNumber(p)>>, o.resp)
          /\ rPRs' = IF o.applied
                        THEN {IF pr.number = ReturnedNumber(p)
                                 THEN [pr EXCEPT !.state = "closed"] ELSE pr : pr \in rPRs}
                        ELSE rPRs
          /\ pc' = [pc EXCEPT ![p] = IF err # NoErr THEN "cleanupFailed" ELSE "DeleteHead"]
    /\ UNCHANGED <<progVars, rRepoExists, rBranches, rCommits, created, calls,
                   emptyCommit, idx, localRefs, ret>>

DeleteStep(p, branch, next) ==
    \E o \in DeleteRefOutcomes(branch) :
        LET err == DeleteBranch(o.resp, cfg[p].Repo, branch) IN
        /\ Tool(p, "DeleteBranch", <<branch>>, o.resp)
        /\ IF o.applied
              THEN rBranches' = [rBranches EXCEPT ![branch] = Absent]
              ELSE UNCHANGED rBranches
        /\ pc' = [pc EXCEPT ![p] = IF err # NoErr THEN "cleanupFailed" ELSE next]
        /\ UNCHANGED <<progVars, rRepoExists, rCommits, rPRs, created, calls,
                       emptyCommit, idx, localRefs, ret>>

Cleanup_DeleteHead(p) ==
    /\ pc[p] = "DeleteHead"
    /\ DeleteStep(p, cfg[p].HeadBranch, "DeleteBase")

Cleanup_DeleteBase(p) ==
    /\ pc[p] = "DeleteBase"
    /\ DeleteStep(p, cfg[p].BaseBranch, "cleaned")

\* ------------------------------------------------------------ specification

Next ==
    \E p \in AllProcs :
        \/ Create_Validate(p)
        \/ Create_Exists(p)
        \/ Create_BranchExistsFull(p)
        \/ Create_BranchExistsBase(p)
        \/ Create_BranchExistsHead(p)
        \/ COBs_MkdirTemp(p)
        \/ COBs_GitClone(p)
        \/ COBs_GitCommitTree(p)
        \/ COBs_GitBranch(p)
        \/ COBs_GitPush(p)
        \/ COBs_GitPushRef(p)
        \/ Create_MergeBranch(p)
        \/ Create_CreatePullRequest(p)
        \/ CFPR_BranchExistsFull(p)
        \/ CFPR_BranchExistsBase(p)
        \/ CFPR_BranchExistsHead(p)
        \/ CFPR_CreateEmptyTreeCommit(p)
        \/ CFPR_CreateBranchBase(p)
        \/ CFPR_CreateBranchHead(p)
        \/ CFPR_MergeBranch(p)
        \/ CFPR_CreatePullRequest(p)
        \/ COB_CreateEmptyTreeCommit(p)
        \/ COB_CreateBranch(p)
        \/ Cleanup_ClosePullRequest(p)
        \/ Cleanup_DeleteHead(p)
        \/ Cleanup_DeleteBase(p)

Spec == Init /\ [][Next]_vars

\* Every call returns: an execution that can take its next step takes it.
\* The workflow is one sequence of blocking calls, so a step that is enabled
\* stays enabled until it is taken.
SpecLive == Init /\ [][Next]_vars /\ WF_vars(Next)

\* ---------------------------------------------------- single Git Operations
\* Each Git Operation called once, on its own, against a server that may
\* answer anything (the servers of the unit tests): the operation issues
\* its request and returns what it makes of the response.

\* The status codes a server answers with.
Statuses == {StatusOK, StatusCreated, StatusNoContent, StatusNotFound,
             StatusUnprocessableEntity, StatusInternalServerError}

\* The values of the field the caller reads in the body.
BodyFields == {Absent, "rev-base", "other", OldCommit, RepoName, "O/R", "x/y",
               ToString(1), PRURLOf(1)}

AnyResponses ==
    {NetErr} \cup {HTTP(st, TRUE, f) : st \in Statuses, f \in BodyFields}
             \cup {HTTP(st, FALSE, Absent) : st \in Statuses}

\* A lookup called on its own.
OpLookup(p, op, args, resp, res) ==
    /\ entry[p] = op /\ pc[p] = "Op"
    /\ Issue(p, op, args, resp)
    /\ Return(p, res.ok, res.err)
    /\ UNCHANGED <<progVars, remoteVars, emptyCommit, idx, localRefs, toolCalls>>

\* An operation that returns a value and an error, called on its own.
OpValue(p, op, args, resp, res) ==
    /\ entry[p] = op /\ pc[p] = "Op"
    /\ Issue(p, op, args, resp)
    /\ Return(p, res.val, res.err)
    /\ UNCHANGED <<progVars, remoteVars, emptyCommit, idx, localRefs, toolCalls>>

\* An operation that returns an error only, called on its own.
OpError(p, op, args, resp, err) ==
    /\ entry[p] = op /\ pc[p] = "Op"
    /\ Issue(p, op, args, resp)
    /\ Return(p, "", err)
    /\ UNCHANGED <<progVars, remoteVars, emptyCommit, idx, localRefs, toolCalls>>

Op_Exists(p) ==
    /\ entry[p] = "Exists"
    /\ \E resp \in AnyResponses :
           OpLookup(p, "Exists", <<>>, resp, Exists(resp, cfg[p].Repo))

Op_BranchExists(p) ==
    /\ entry[p] = "BranchExists"
    /\ \E resp \in AnyResponses :
           OpLookup(p, "BranchExists", <<cfg[p].BaseBranch>>, resp,
                    BranchExists(resp, cfg[p].Repo, cfg[p].BaseBranch))

Op_CommitExists(p) ==
    /\ entry[p] = "CommitExists"
    /\ \E resp \in AnyResponses :
           OpLookup(p, "CommitExists", <<cfg[p].BaseBranch>>, resp,
                    CommitExists(resp, cfg[p].Repo, cfg[p].BaseBranch))

Op_CreateEmptyTreeCommit(p) ==
    /\ entry[p] = "CreateEmptyTreeCommit"
    /\ \E resp \in AnyResponses :
           OpValue(p, "CreateEmptyTreeCommit", <<>>, resp,
                   CreateEmptyTreeCommit(resp, cfg[p].Repo))

Op_CreateBranch(p) ==
    /\ entry[p] = "CreateBranch"
    /\ \E resp \in AnyResponses :
           OpError(p, "CreateBranch", <<cfg[p].BaseBranch, OldCommit>>, resp,
                   CreateBranch(resp, cfg[p].Repo, cfg[p].BaseBranch, OldCommit))

Op_MergeBranch(p) ==
    /\ entry[p] = "MergeBranch"
    /\ \E resp \in AnyResponses :
           OpError(p, "MergeBranch", <<cfg[p].BaseBranch, cfg[p].FullRepoBranch>>, resp,
                   MergeBranch(resp, cfg[p].Repo, cfg[p].BaseBranch, cfg[p].FullRepoBranch))

Op_CreatePullRequest(p) ==
    /\ entry[p] = "CreatePullRequest"
    /\ \E resp \in AnyResponses :
           OpValue(p, "CreatePullRequest",
                   <<cfg[p].Title, cfg[p].Body, cfg[p].BaseBranch, cfg[p].HeadBranch>>, resp,
                   CreatePullRequestURL(resp, cfg[p].Repo, cfg[p].BaseBranch, cfg[p].HeadBranch))

Op_CreatePullRequestNumber(p) ==
    /\ entry[p] = "CreatePullRequestNumber"
    /\ \E resp \in {r \in AnyResponses : r.field \in {Absent, ToString(1)}} :
           OpValue(p, "CreatePullRequestNumber",
                   <<cfg[p].Title, cfg[p].Body, cfg[p].BaseBranch, cfg[p].HeadBranch>>, resp,
                   CreatePullRequestNumber(resp, cfg[p].Repo, cfg[p].BaseBranch,
                                           cfg[p].HeadBranch))

Op_DeleteBranch(p) ==
    /\ entry[p] = "DeleteBranch"
    /\ \E resp \in AnyResponses :
           OpError(p, "DeleteBranch", <<cfg[p].BaseBranch>>, resp,
                   DeleteBranch(resp, cfg[p].Repo, cfg[p].BaseBranch))

Op_ClosePullRequest(p) ==
    /\ entry[p] = "ClosePullRequest"
    /\ \E resp \in AnyResponses :
           OpError(p, "ClosePullRequest", <<1>>, resp,
                   ClosePullRequest(resp, cfg[p].Repo, 1))

InitOps == InitProcs({1}, GitOperations, OpConfigs) /\ InitRemote

NextOps ==
    \E p \in AllProcs :
        \/ Op_Exists(p)
        \/ Op_BranchExists(p)
        \/ Op_CommitExists(p)
        \/ Op_CreateEmptyTreeCommit(p)
        \/ Op_CreateBranch(p)
        \/ Op_MergeBranch(p)
        \/ Op_CreatePullRequest(p)
        \/ Op_CreatePullRequestNumber(p)
        \/ Op_DeleteBranch(p)
        \/ Op_ClosePullRequest(p)

SpecOps == InitOps /\ [][NextOps]_vars

\* -------------------------------------------------------------------- race
\* Two executions of the same entry point run at the same time against the
\* same repository with the same configuration.
RaceConfigs == {Config("tok", RepoName, "main", "T", "B", "rev-base", "rev-head")}

InitRace ==
    /\ InitProcs({1, 2}, Entries, RaceConfigs)
    /\ entry[1] = entry[2]
    /\ InitRemote

SpecRace == InitRace /\ [][Next]_vars

\* ---------------------------------------------------------- disjoint pair
\* Two executions of the workflow run at the same time against the same
\* repository, each with its own base and head branch names.
InitPair ==
    /\ InitProcs({1, 2}, {"Create", "CreateFullPullRequest"}, PairConfigs)
    /\ \A p \in {1, 2} : cfg[p] = PairConfig(p)
    /\ InitRemote

NextPair ==
    \E p \in AllProcs :
        \/ Create_Validate(p)
        \/ Create_Exists(p)
        \/ Create_BranchExistsFull(p)
        \/ Create_BranchExistsBase(p)
        \/ Create_BranchExistsHead(p)
        \/ COBs_MkdirTemp(p)
        \/ COBs_GitClone(p)
        \/ COBs_GitCommitTree(p)
        \/ COBs_GitBranch(p)
        \/ COBs_GitPush(p)
        \/ COBs_GitPushRef(p)
        \/ Create_MergeBranch(p)
        \/ Create_CreatePullRequest(p)
        \/ CFPR_BranchExistsFull(p)
        \/ CFPR_BranchExistsBase(p)
        \/ CFPR_BranchExistsHead(p)
        \/ CFPR_CreateEmptyTreeCommit(p)
        \/ CFPR_CreateBranchBase(p)
        \/ CFPR_CreateBranchHead(p)
        \/ CFPR_MergeBranch(p)
        \/ CFPR_CreatePullRequest(p)

SpecPair == InitPair /\ [][NextPair]_vars

\* ------------------------------------------------------------ branch names
\* One execution of the workflow whose source, base and head branch names
\* are chosen freely, against a repository that holds any of the branches.
InitNames ==
    /\ InitProcs({1}, {"Create", "CreateFullPullRequest"}, NameConfigs)
    /\ InitRemote

SpecNames == InitNames /\ [][NextPair]_vars

\* ------------------------------------------------------- repository names
\* One execution of the workflow on any token and repository name; the API
\* workflow is a method of a repo, so it runs on those NewRepo accepts.
InitRepos ==
    /\ InitProcs({1}, {"Create", "CreateFullPullRequest"}, RepoConfigs)
    /\ InitRemote

SpecRepos == InitRepos /\ [][NextPair]_vars

\* ------------------------------------------------------------------ re-run
\* The operator runs the workflow again, with the same configuration, after
\* a run that failed; nothing is deleted in between.
Rerun(q) ==
    /\ q \in AllProcs \ procs /\ q > 1 /\ q - 1 \in procs
    /\ entry[q - 1] \in {"Create", "CreateFullPullRequest"}
    /\ pc[q - 1] = "done" /\ ret[q - 1].err # NoErr
    /\ procs' = procs \cup {q}
    /\ entry' = [entry EXCEPT ![q] = entry[q - 1]]
    /\ cfg' = [cfg EXCEPT ![q] = cfg[q - 1]]
    /\ pc' = [pc EXCEPT ![q] = FirstPC(entry[q - 1])]
    /\ ret' = [ret EXCEPT ![q] = [val |-> ZeroOf(entry[q - 1]), err |-> NoErr]]
    /\ UNCHANGED <<remoteVars, calls, emptyCommit, idx, localRefs, toolCalls, cli>>

NextRerun == Next \/ \E q \in AllProcs : Rerun(q)

SpecRerun == Init /\ [][NextRerun]_vars

\* ------------------------------------------- configuration from arguments

\* The error of an option that was given the empty string.
EmptyValueErr(field) ==
    CASE field = "Token" ->
           Err("token cannot be empty, please specify a Github personal access token",
               "", <<>>, 0)
      [] field = "FullRepoBranch" -> Err("the full repo branch cannot be empty", "", <<>>, 0)
      [] field = "Title" -> Err("the title cannot be empty", "", <<>>, 0)
      [] field = "Body" -> Err("the body cannot be empty", "", <<>>, 0)
      [] field = "BaseBranch" -> Err("the base branch name cannot be empty", "", <<>>, 0)
      [] field = "HeadBranch" -> Err("the head branch name cannot be empty", "", <<>>, 0)

\* An option that leaves the field alone when given the empty string.
WithOption_EmptyIgnored(f, o) ==
    IF o.value = "" THEN [val |-> f, err |-> NoErr]
    ELSE [val |-> [f EXCEPT ![o.field] = o.value], err |-> NoErr]

\* WithToken, WithFullRepoBranch, WithTitle, WithBody, WithBaseBranchName,
\* WithHeadBranchName applied to the creator f: o names the field and the
\* value the option was made with.
WithOption(f, o) ==
    IF o.value = "" THEN [val |-> f, err |-> EmptyValueErr(o.field)]
    ELSE [val |-> [f EXCEPT ![o.field] = o.value], err |-> NoErr]

\* for _, option := range options: the first error ends the loop and no
\* creator is returned.
RECURSIVE ApplyOptions(_, _)
ApplyOptions(f, options) ==
    IF options = <<>> THEN [val |-> f, err |-> NoErr]
    ELSE LET r == WithOption(f, Head(options)) IN
         IF r.err # NoErr THEN [val |-> IdleConfig, err |-> r.err]
         ELSE ApplyOptions(r.val, Tail(options))

\* NewFullPullRequestCreator(repo, options...).
NewFullPullRequestCreator(repository, options) ==
    IF repository = ""
        THEN [val |-> IdleConfig, err |-> Err("repo cannot be empty", "", <<>>, 0)]
        ELSE ApplyOptions(Config("", repository, DefaultFullRepoBranch, DefaultTitle,
                                 DefaultBody, DefaultBaseBranch, DefaultHeadBranch),
                          options)

\* flag.FlagSet.Parse: a flag on the command line is set to the value given.
Parse(args) ==
    [name \in FlagNames |->
        IF args.flags[name] = NotGiven THEN DefValue(name) ELSE args.flags[name]]

\* flag.Value.Set: a string flag takes the text; a boolean flag takes what
\* strconv.ParseBool makes of it and stays as it is when that fails.
Set(name, value, text) ==
    IF name # "version" THEN text
    ELSE IF text \in {"1", "t", "T", "TRUE", "true", "True"} THEN "true"
    ELSE IF text \in {"0", "f", "F", "FALSE", "false", "False"} THEN "false"
    ELSE value

\* flagOrEnvValue with the environment variable consulted for every flag.
flagOrEnvValue_EnvFirst(name, value, env) ==
    IF env[EnvVarName(name)] # ""
        THEN Set(name, value, env[EnvVarName(name)])
        ELSE value

\* flagOrEnvValue: the value of the flag after the call.
flagOrEnvValue(name, value, env) ==
    IF env[EnvVarName(name)] # "" /\ value = DefValue(name)
        THEN Set(name, value, env[EnvVarName(name)])
        ELSE value

\* fs.VisitAll(flagOrEnvValue)
VisitAll(values, env) ==
    [name \in FlagNames |-> flagOrEnvValue(name, values[name], env)]

\* strings.TrimPrefix(s, "github.com/") on the repository arguments.
TrimPrefix(s) == IF s = "github.com/o/r" THEN "o/r" ELSE s

NewFullPullRequestCreatorFromArgs(args, env) ==
    LET CLI == VisitAll(Parse(args), env)
        f == NewFullPullRequestCreator(TrimPrefix(args.rest[1]), <<>>)
    IN  IF CLI["version"] = "true"
            THEN [val |-> IdleConfig, err |-> Err("version", "", <<>>, 0)]
        ELSE IF Len(args.rest) = 0
            THEN [val |-> IdleConfig, err |-> Err("no repository name", "", <<>>, 0)]
        ELSE IF Len(args.rest) > 1
            THEN [val |-> IdleConfig,
                  err |-> Err("only specify one repository name", "", <<>>, 0)]
        ELSE IF f.err # NoErr THEN f
        ELSE IF env["GH_TOKEN"] = ""
            THEN [val |-> IdleConfig,
                  err |-> Err("set the GH_TOKEN environment variable", "", <<>>, 0)]
        ELSE [val |-> Config(env["GH_TOKEN"], f.val.Repo, CLI["fbranch"], CLI["title"],
                             CLI["body"], CLI["bbranch"], CLI["hbranch"]),
              err |-> NoErr]

FromArgs(p) ==
    /\ entry[p] = "NewFullPullRequestCreatorFromArgs" /\ pc[p] = "Parse"
    /\ LET res == NewFullPullRequestCreatorFromArgs(cfg[p].Args, cfg[p].Env)
       IN  Return(p, res.val, res.err)
    /\ UNCHANGED <<progVars, remoteVars, calls, emptyCommit, idx, localRefs, toolCalls>>

InitArgs ==
    /\ InitProcs({1}, {"NewFullPullRequestCreatorFromArgs"}, ArgConfigs)
    /\ InitRemote /\ rRepoExists /\ \A b \in BranchNames : rBranches[b] = Absent

NextArgs == \E p \in AllProcs : FromArgs(p)

SpecArgs == InitArgs /\ [][NextArgs]_vars

\* ------------------------------------------------ creator from options
\* One call of NewFullPullRequestCreator with a repository and a list of
\* options.
CallNewFullPullRequestCreator(p) ==
    /\ entry[p] = "NewFullPullRequestCreator" /\ pc[p] = "Options"
    /\ LET res == NewFullPullRequestCreator(cfg[p].Repo, cfg[p].Options)
       IN  Return(p, res.val, res.err)
    /\ UNCHANGED <<progVars, remoteVars, calls, emptyCommit, idx, localRefs, toolCalls>>

InitOptions ==
    /\ InitProcs({1}, {"NewFullPullRequestCreator"}, OptionConfigs)
    /\ InitRemote /\ rRepoExists /\ \A b \in BranchNames : rBranches[b] = Absent

NextOptions == \E p \in AllProcs : CallNewFullPullRequestCreator(p)

SpecOptions == InitOptions /\ [][NextOptions]_vars

\* ----------------------------------------------------------------- RunCLI

\* CreateFullPullRequestFromArgs: the configuration is built from the
\* arguments; an error is returned at once, else p goes on to run
\* FPR.Create() with the configuration built.
RunCLI_FromArgs(p) ==
    /\ entry[p] = "RunCLI" /\ pc[p] = "Parse"
    /\ LET res == NewFullPullRequestCreatorFromArgs(cfg[p].Args, cfg[p].Env) IN
       IF res.err # NoErr
          THEN /\ Return(p, "", res.err)
               /\ UNCHANGED <<entry, cfg>>
          ELSE /\ entry' = [entry EXCEPT ![p] = "Create"]
               /\ cfg' = [cfg EXCEPT ![p] = res.val]
               /\ Goto(p, FirstPC("Create"))
    /\ UNCHANGED <<procs, cli, remoteVars, calls, emptyCommit, idx, localRefs, toolCalls>>

CreatedAt(url) == "A full pull request has been created at " \o url

\* RunCLI that reports a pull request whatever the workflow returned.
RunCLI_Exit_ErrorIgnored(p) ==
    /\ cli[p].on /\ ~cli[p].exited /\ pc[p] = "done"
    /\ cli' = [cli EXCEPT ![p] = [on |-> TRUE, exited |-> TRUE, status |-> 0,
                                  stdout |-> CreatedAt(ret[p].val), stderr |-> NoErr]]
    /\ pc' = [pc EXCEPT ![p] = "exited"]
    /\ UNCHANGED <<procs, entry, cfg, ret, remoteVars, calls, emptyCommit, idx,
                   localRefs, toolCalls>>

\* RunCLI after CreateFullPullRequestFromArgs has returned: the error goes
\* to os.Stderr with os.Exit(1), else the URL goes to os.Stdout.
RunCLI_Exit(p) ==
    /\ cli[p].on /\ ~cli[p].exited /\ pc[p] = "done"
    /\ cli' = [cli EXCEPT ![p] =
                  IF ret[p].err # NoErr
                     THEN [on |-> TRUE, exited |-> TRUE, status |-> 1,
                           stdout |-> "", stderr |-> ret[p].err]
                     ELSE [on |-> TRUE, exited |-> TRUE, status |-> 0,
                           stdout |-> CreatedAt(ret[p].val), stderr |-> NoErr]]
    /\ pc' = [pc EXCEPT ![p] = "exited"]
    /\ UNCHANGED <<procs, entry, cfg, ret, remoteVars, calls, emptyCommit, idx,
                   localRefs, toolCalls>>

InitCLI == InitProcs({1}, {"RunCLI"}, CLIConfigs) /\ InitRemote

NextCLI ==
    \E p \in AllProcs :
        \/ RunCLI_FromArgs(p)
        \/ Create_Validate(p)
        \/ Create_Exists(p)
        \/ Create_BranchExistsFull(p)
        \/ Create_BranchExistsBase(p)
        \/ Create_BranchExistsHead(p)
        \/ COBs_MkdirTemp(p)
        \/ COBs_GitClone(p)
        \/ COBs_GitCommitTree(p)
        \/ COBs_GitBranch(p)
        \/ COBs_GitPush(p)
        \/ COBs_GitPushRef(p)
        \/ Create_MergeBranch(p)
        \/ Create_CreatePullRequest(p)
        \/ RunCLI_Exit(p)

SpecCLI == InitCLI /\ [][NextCLI]_vars

\* ------------------------------------------------------- integration tests
\* t.Fatal / t.Fatalf end the test: the test returns the error it reports.

BranchAlreadyExists(p) ==
    Err("Branch already exists on repository", "", <<cfg[p].BaseBranch, cfg[p].Repo>>, 0)
BranchNotActuallyExists(p) ==
    Err("Branch does not actually exists on repository", "",
        <<cfg[p].BaseBranch, cfg[p].Repo>>, 0)
EmptyShaReturned(p) ==
    Err("empty sha returned creating an empty-tree commit in repository", "",
        <<cfg[p].Repo>>, 0)
CommitNotActuallyExists(p) ==
    Err("empty-tree commit does not actually exist in repository", "",
        <<emptyCommit[p], cfg[p].Repo>>, 0)

\* TestCreateOrphanBranchIntegration
TCOB_BranchExists(p) ==
    /\ entry[p] = "TestCreateOrphanBranchIntegration" /\ pc[p] = "BranchExists"
    /\ CheckBranch(p, cfg[p].BaseBranch, FALSE, BranchAlreadyExists(p),
                   "CreateEmptyTreeCommit")

TCOB_CreateEmptyTreeCommit(p) ==
    /\ entry[p] = "TestCreateOrphanBranchIntegration" /\ pc[p] = "CreateEmptyTreeCommit"
    /\ CommitStep(p, "CreateBranch")

\* CreateOrphanBranch that drops the error of CreateBranch.
TCOB_CreateBranch_ErrorDropped(p) ==
    /\ entry[p] = "TestCreateOrphanBranchIntegration" /\ pc[p] = "CreateBranch"
    /\ \E o \in CreateRefOutcomes(cfg[p].BaseBranch, emptyCommit[p]) :
          /\ Issue(p, "CreateBranch", <<cfg[p].BaseBranch, emptyCommit[p]>>, o.resp)
          /\ IF o.applied THEN SetBranch(p, cfg[p].BaseBranch, emptyCommit[p])
                          ELSE UNCHANGED <<rBranches, created>>
          /\ Goto(p, "BranchExistsAfter")
    /\ UNCHANGED <<progVars, rRepoExists, rCommits, rPRs, emptyCommit, idx,
                   localRefs, toolCalls>>

TCOB_CreateBranch(p) ==
    /\ entry[p] = "TestCreateOrphanBranchIntegration" /\ pc[p] = "CreateBranch"
    /\ BranchStep(p, cfg[p].BaseBranch, "BranchExistsAfter")

TCOB_BranchExistsAfter(p) ==
    /\ entry[p] = "TestCreateOrphanBranchIntegration" /\ pc[p] = "BranchExistsAfter"
    /\ CheckBranch(p, cfg[p].BaseBranch, TRUE, BranchNotActuallyExists(p), "done")

\* TestCreateEmptyTreeCommitIntegration
TCETC_CreateEmptyTreeCommit(p) ==
    /\ entry[p] = "TestCreateEmptyTreeCommitIntegration" /\ pc[p] = "CreateEmptyTreeCommit"
    /\ CommitStep(p, "GotSha")

TCETC_GotSha(p) ==
    /\ entry[p] = "TestCreateEmptyTreeCommitIntegration" /\ pc[p] = "GotSha"
    /\ IF emptyCommit[p] = "" THEN Return(p, Zero(p), EmptyShaReturned(p))
                              ELSE Goto(p, "CommitExists")
    /\ UNCHANGED <<progVars, remoteVars, calls, emptyCommit, idx, localRefs, toolCalls>>

TCETC_CommitExists(p) ==
    /\ entry[p] = "TestCreateEmptyTreeCommitIntegration" /\ pc[p] = "CommitExists"
    /\ \E resp \in CommitExistsResponses(emptyCommit[p]) :
          LET res == CommitExists(resp, cfg[p].Repo, emptyCommit[p]) IN
          /\ Issue(p, "CommitExists", <<emptyCommit[p]>>, resp)
          /\ IF res.err # NoErr THEN Return(p, Zero(p), res.err)
             ELSE IF ~res.ok THEN Return(p, Zero(p), CommitNotActuallyExists(p))
             ELSE Goto(p, "done")
    /\ UNCHANGED <<progVars, remoteVars, emptyCommit, idx, localRefs, toolCalls>>

InitTests == InitProcs({1}, IntegrationTests, COBConfigs) /\ InitRemote

NextTests ==
    \E p \in AllProcs :
        \/ TCOB_BranchExists(p)
        \/ TCOB_CreateEmptyTreeCommit(p)
        \/ TCOB_CreateBranch(p)
        \/ TCOB_BranchExistsAfter(p)
        \/ TCETC_CreateEmptyTreeCommit(p)
        \/ TCETC_GotSha(p)
        \/ TCETC_CommitExists(p)

SpecTests == InitTests /\ [][NextTests]_vars

\* ============================================================ properties

Workflows == {"Create", "CreateFullPullRequest"}

\* The entry point of p has returned (the tooling may have run since).
Returned(p) == pc[p] \in {"done", "DeleteHead", "DeleteBase", "cleaned", "cleanupFailed"}

IsPrefix(s, t) == Len(s) <= Len(t) /\ \A i \in 1..Len(s) : s[i] = t[i]

Op(op, args) == [op |-> op, args |-> args]

\* The operations p has issued, without the responses.
Ops(p) == [i \in 1..Len(calls[p]) |-> Op(calls[p][i].op, calls[p][i].args)]

PRsBy(p) == {pr \in rPRs : pr.by = p}

MutatingOps == {"CreateEmptyTreeCommit", "CreateBranch", "MergeBranch", "CreatePullRequest",
                "GitCommitTree", "GitBranch", "GitPush"}

CommitOps == {"CreateEmptyTreeCommit", "GitCommitTree"}
BranchOps == {"CreateBranch", "GitBranch"}

\* Which existence check the i-th call of p is.
CheckRole(p, i) ==
    LET k == IF entry[p] = "Create" THEN i - 1 ELSE i IN
    IF calls[p][i].op # "BranchExists" THEN "none"
    ELSE IF k = 1 THEN "source" ELSE IF k = 2 THEN "base" ELSE IF k = 3 THEN "head" ELSE "none"

\* The error the i-th call of p amounts to for the workflow, judged from the
\* response that call received; NoErr when the step succeeded.
StepError(p, i) ==
    LET c == calls[p][i]
        r == cfg[p].Repo
    IN  CASE c.op = "Exists" ->
               IF Exists(c.resp, r).err # NoErr THEN Exists(c.resp, r).err
               ELSE IF ~Exists(c.resp, r).ok THEN RepoMissing(p) ELSE NoErr
          [] c.op = "BranchExists" ->
               IF BranchExists(c.resp, r, c.args[1]).err # NoErr
                  THEN BranchExists(c.resp, r, c.args[1]).err
               ELSE IF CheckRole(p, i) = "source"
                  THEN IF BranchExists(c.resp, r, c.args[1]).ok THEN NoErr
                       ELSE FullBranchMissing(p)
               ELSE IF ~BranchExists(c.resp, r, c.args[1]).ok THEN NoErr
               ELSE IF CheckRole(p, i) = "base" THEN BaseBranchPresent(p)
               ELSE HeadBranchPresent(p)
          [] c.op = "CreateEmptyTreeCommit" -> CreateEmptyTreeCommit(c.resp, r).err
          [] c.op = "CreateBranch" -> CreateBranch(c.resp, r, c.args[1], c.args[2])
          [] c.op = "MergeBranch" -> MergeBranch(c.resp, r, c.args[1], c.args[2])
          [] c.op = "CreatePullRequest" ->
               IF entry[p] = "Create"
                  THEN CreatePullRequestURL(c.resp, r, c.args[3], c.args[4]).err
                  ELSE CreatePullRequestNumber(c.resp, r, c.args[3], c.args[4]).err
          [] c.op = "GitClone" -> IF c.resp.status # 0 THEN GitErr("clone") ELSE NoErr
          [] c.op = "GitCommitTree" ->
               IF c.resp.status # 0 THEN GitErr("commit-tree")
               ELSE IF c.resp.field = "" THEN EmptyShaErr ELSE NoErr
          [] c.op = "GitBranch" -> IF c.resp.status # 0 THEN GitErr("branch") ELSE NoErr
          [] c.op = "GitPush" -> IF c.resp.status # 0 THEN GitErr("push") ELSE NoErr
          [] OTHER -> NoErr

\* ---------------------------------------------------------------------- C1

\* The sequence of operations each entry point issues.
EntrySequence(p) ==
    LET f == cfg[p] IN
    CASE entry[p] = "Create" ->
           <<Op("Exists", <<>>),
             Op("BranchExists", <<f.FullRepoBranch>>),
             Op("BranchExists", <<f.BaseBranch>>),
             Op("BranchExists", <<f.HeadBranch>>),
             Op("GitClone", <<f.Repo>>),
             Op("GitCommitTree", <<>>),
             Op("GitBranch", <<f.BaseBranch, emptyCommit[p]>>),
             Op("GitBranch", <<f.HeadBranch, emptyCommit[p]>>),
             Op("GitPush", <<f.BaseBranch, f.HeadBranch>>),
             Op("MergeBranch", <<f.HeadBranch, f.FullRepoBranch>>),
             Op("CreatePullRequest", <<f.Title, f.Body, f.BaseBranch, f.HeadBranch>>)>>
      [] entry[p] = "CreateFullPullRequest" ->
           <<Op("BranchExists", <<f.FullRepoBranch>>),
             Op("BranchExists", <<f.BaseBranch>>),
             Op("BranchExists", <<f.HeadBranch>>),
             Op("CreateEmptyTreeCommit", <<>>),
             Op("CreateBranch", <<f.BaseBranch, emptyCommit[p]>>),
             Op("CreateBranch", <<f.HeadBranch, emptyCommit[p]>>),
             Op("MergeBranch", <<f.HeadBranch, f.FullRepoBranch>>),
             Op("CreatePullRequest", <<f.Title, f.Body, f.BaseBranch, f.HeadBranch>>)>>
      [] entry[p] = "CreateOrphanBranch" ->
           <<Op("CreateEmptyTreeCommit", <<>>),
             Op("CreateBranch", <<f.BaseBranch, emptyCommit[p]>>)>>
      [] OTHER -> <<>>

\* C1 (as amended): in every execution the operations issued so far are a
\* prefix of the fixed sequence of the entry point run -- for Create:
\* Exists, BranchExists(source), BranchExists(base), BranchExists(head),
\* git clone, git commit-tree, git branch base, git branch head, git push
\* base head, MergeBranch(head, source), CreatePullRequest(base, head); for
\* repo.CreateFullPullRequest: BranchExists(source), BranchExists(base),
\* BranchExists(head), CreateEmptyTreeCommit, CreateBranch(base),
\* CreateBranch(head), MergeBranch(head, source), CreatePullRequest(base,
\* head).  No step is retried, skipped or issued out of order.
C1_FixedSequence == \A p \in procs : IsPrefix(Ops(p), EntrySequence(p))

\* A Create execution that has issued its whole sequence and succeeded.
C1_Witness ==
    \E p \in procs : /\ entry[p] = "Create" /\ pc[p] = "done" /\ ret[p].err = NoErr
                     /\ Len(calls[p]) = Len(EntrySequence(p))

\* The sequence the claim states, branch creations named by their branch.
ClaimedSequence(p) ==
    LET f == cfg[p] IN
    <<Op("Exists", <<>>),
      Op("BranchExists", <<f.FullRepoBranch>>),
      Op("BranchExists", <<f.BaseBranch>>),
      Op("BranchExists", <<f.HeadBranch>>),
      Op("CreateEmptyTreeCommit", <<>>),
      Op("CreateBranch", <<f.BaseBranch>>),
      Op("CreateBranch", <<f.HeadBranch>>),
      Op("MergeBranch", <<f.HeadBranch, f.FullRepoBranch>>),
      Op("CreatePullRequest", <<f.Title, f.Body, f.BaseBranch, f.HeadBranch>>)>>

\* The operations of p that reach the remote (git commit-tree and git branch
\* act on the temporary clone only).
IsRemoteCall(c) == c.op \notin {"GitCommitTree", "GitBranch"}
RemoteKey(c) ==
    IF c.op = "CreateBranch" THEN Op(c.op, <<c.args[1]>>) ELSE Op(c.op, c.args)
RemoteOps(p) ==
    LET rc == SelectSeq(calls[p], IsRemoteCall) IN
    [i \in 1..Len(rc) |-> RemoteKey(rc[i])]

\* C1 as stated: the remote operations issued are a prefix of RepositoryExists,
\* BranchExists(source), BranchExists(base), BranchExists(head), create
\* empty-tree commit, create base branch, create head branch, MergeBranch,
\* CreatePullRequest, and none is issued twice with the same arguments.
C1_Original ==
    \A p \in procs :
        entry[p] \in Workflows =>
            /\ IsPrefix(RemoteOps(p), ClaimedSequence(p))
            /\ \A i, j \in 1..Len(RemoteOps(p)) :
                  i # j => RemoteOps(p)[i] # RemoteOps(p)[j]

\* ---------------------------------------------------------------------- C2

\* One of the six fields of the configuration is empty.
AnyFieldEmpty(f) ==
    \/ f.Repo = "" \/ f.FullRepoBranch = "" \/ f.Title = "" \/ f.Body = ""
    \/ f.BaseBranch = "" \/ f.HeadBranch = ""

\* The messages of the errors that reject a configuration.
ConfigErrorMsgs ==
    {"the full repo branch cannot be empty", "the base branch cannot be empty",
     "the head branch cannot be empty", "the title cannot be empty",
     "the body cannot be empty", "the repository cannot be empty"}

\* p has issued no request and, once returned, has failed with a
\* configuration error and the zero result.
RejectedUnsent(p) ==
    /\ calls[p] = <<>>
    /\ pc[p] \in {"Validate", "done"}
    /\ pc[p] = "done" => /\ ret[p].err.msg \in ConfigErrorMsgs
                         /\ ret[p].val = Zero(p)

FoundPresent(p, i) ==
    /\ CheckRole(p, i) \in {"base", "head"}
    /\ BranchExists(calls[p][i].resp, cfg[p].Repo, calls[p][i].args[1]).err = NoErr
    /\ BranchExists(calls[p][i].resp, cfg[p].Repo, calls[p][i].args[1]).ok

\* C3: if BranchExists(base) or BranchExists(head) returns true, the workflow
\* fails with the "branch already exists" error and creates no empty-tree
\* commit, no branch, no merge and no pull request.
C3_PresentBranchStops ==
    \A p \in procs : \A i \in 1..Len(calls[p]) :
        entry[p] \in Workflows /\ FoundPresent(p, i) =>
            /\ i = Len(calls[p])
            /\ pc[p] = "done"
            /\ ret[p].err = IF CheckRole(p, i) = "base" THEN BaseBranchPresent(p)
                                                        ELSE HeadBranchPresent(p)
            /\ ret[p].val = Zero(p)
            /\ \A j \in 1..Len(calls[p]) : calls[p][j].op \notin MutatingOps
            /\ created[p] = {} /\ PRsBy(p) = {}

\* The head check of repo.CreateFullPullRequest found the head branch.
C3_Witness ==
    \E p \in procs : \E i \in 1..Len(calls[p]) :
        /\ entry[p] = "CreateFullPullRequest" /\ FoundPresent(p, i)
        /\ CheckRole(p, i) = "head" /\ pc[p] = "done"

\* ---------------------------------------------------------------------- C4

\* C4: a failure of any step halts the workflow: the failing step is the
\* last operation issued, the workflow has returned, and what it returned
\* is that step's error with the zero result; a workflow that returned
\* success had no failing step.
C4_FirstFailureHalts ==
    \A p \in procs :
        entry[p] \in Workflows =>
            /\ \A i \in 1..Len(calls[p]) :
                  StepError(p, i) # NoErr =>
                      /\ i = Len(calls[p])
                      /\ pc[p] = "done"
                      /\ ret[p].err = StepError(p, i)
                      /\ ret[p].val = Zero(p)
            /\ Returned(p) /\ ret[p].err = NoErr =>
                  \A i \in 1..Len(calls[p]) : StepError(p, i) = NoErr

\* Create has returned the error of a failed merge, its tenth operation.
C4_Witness ==
    \E p \in procs :
        /\ entry[p] = "Create" /\ pc[p] = "done" /\ Len(calls[p]) = 10
        /\ calls[p][10].op = "MergeBranch"
        /\ StepError(p, 10) # NoErr /\ ret[p].err = StepError(p, 10)

\* ---------------------------------------------------------------------- C5

\* The handle the empty-tree commit creation of p returned.
CommitHandle(p) ==
    LET made == SelectSeq(calls[p], LAMBDA c : c.op \in CommitOps) IN
    IF made = <<>> THEN Absent ELSE made[1].resp.field

\* The handle of the pull request the service reported to p.
ReportedPR(p) ==
    LET last == calls[p][Len(calls[p])] IN
    IF entry[p] = "Create" THEN last.resp.field ELSE NumberOf(last.resp.field)

HandleOf(p, pr) == IF entry[p] = "Create" THEN PRURLOf(pr.number) ELSE pr.number

\* C5: when every operation succeeds the workflow returns exactly the
\* identifier P of the pull request created; both branch creations used the
\* handle H of the empty-tree commit; MergeBranch was called with the head
\* branch as target and the source branch merged in; CreatePullRequest was
\* called with the configured title and body, the base branch as base and
\* the head branch as head.
C5_SuccessReturnsPR ==
    \A p \in procs :
        entry[p] \in Workflows /\ Returned(p) /\ ret[p].err = NoErr =>
            LET f == cfg[p]
                n == Len(calls[p])
                branched == SelectSeq(calls[p], LAMBDA c : c.op \in BranchOps)
            IN  /\ n = Len(EntrySequence(p))
                /\ ret[p].val = ReportedPR(p)
                /\ \E pr \in PRsBy(p) :
                      /\ HandleOf(p, pr) = ret[p].val
                      /\ pr.title = f.Title /\ pr.body = f.Body
                      /\ pr.base = f.BaseBranch /\ pr.head = f.HeadBranch
                /\ Len(branched) = 2
                /\ branched[1].args = <<f.BaseBranch, CommitHandle(p)>>
                /\ branched[2].args = <<f.HeadBranch, CommitHandle(p)>>
                /\ CommitHandle(p) \notin {Absent, ""}
                /\ calls[p][n - 1].op = "MergeBranch"
                /\ calls[p][n - 1].args = <<f.HeadBranch, f.FullRepoBranch>>
                /\ calls[p][n].op = "CreatePullRequest"
                /\ calls[p][n].args = <<f.Title, f.Body, f.BaseBranch, f.HeadBranch>>

\* repo.CreateFullPullRequest has returned the number of the pull request.
C5_Witness ==
    \E p \in procs :
        /\ entry[p] = "CreateFullPullRequest" /\ pc[p] = "done" /\ ret[p].err = NoErr
        /\ ret[p].val = 1 /\ \E pr \in PRsBy(p) : pr.number = 1

\* ---------------------------------------------------------------------- C6

Count(p, ops) == Len(SelectSeq(calls[p], LAMBDA c : c.op \in ops))

\* C6: the empty-tree commit is created at most once, exactly once when a
\* branch creation follows, and right after the head branch is created
\* (before the merge) the base branch and the head branch both point at the
\* commit handle that creation returned.
C6_BranchesShareCommit ==
    \A p \in procs :
        /\ Count(p, CommitOps) <= 1
        /\ Count(p, BranchOps) > 0 => Count(p, CommitOps) = 1
        /\ entry[p] \in Workflows /\ pc[p] = "MergeBranch" =>
              /\ CommitHandle(p) \notin {Absent, ""}
              /\ RBranch(cfg[p].BaseBranch) = CommitHandle(p)
              /\ RBranch(cfg[p].HeadBranch) = CommitHandle(p)

\* repo.CreateFullPullRequest has just created distinct base and head branches.
C6_Witness ==
    \E p \in procs :
        /\ entry[p] = "CreateFullPullRequest" /\ pc[p] = "MergeBranch"
        /\ cfg[p].BaseBranch # cfg[p].HeadBranch
        /\ RBranch(cfg[p].HeadBranch) = EmptyTreeSha(p)

\* ---------------------------------------------------------------------- C7

\* The i-th call of p is a failed creation of the empty-tree commit.
CommitFailed(p, i) == calls[p][i].op \in CommitOps /\ StepError(p, i) # NoErr

\* C7: if the creation of the empty-tree commit fails, no branch creation
\* occurs in that execution, neither in a workflow nor in CreateOrphanBranch.
C7_NoBranchAfterFailedCommit ==
    \A p \in procs : \A i \in 1..Len(calls[p]) :
        CommitFailed(p, i) =>
            /\ \A j \in 1..Len(calls[p]) : calls[p][j].op \notin BranchOps \cup {"GitPush"}
            /\ created[p] = {}
            /\ pc[p] = "done" /\ ret[p].err # NoErr

\* CreateOrphanBranch has returned after a failed commit creation.
C7_Witness ==
    \E p \in procs :
        /\ entry[p] = "CreateOrphanBranch" /\ pc[p] = "done"
        /\ Len(calls[p]) = 1 /\ CommitFailed(p, 1)

\* ---------------------------------------------------------------------- C8

\* The i-th call of p is a pull-request creation answered 201 without the
\* identifier / URL field.
CreatedWithoutHandle(p, i) ==
    /\ calls[p][i].op = "CreatePullRequest"
    /\ ~calls[p][i].resp.neterr
    /\ calls[p][i].resp.status = StatusCreated
    /\ calls[p][i].resp.field = Absent

MissingHandleMsgs ==
    {"the Github API did not return a pull request HTML URL",
     "the Github API did not return a pull request number"}

\* C8: if the response to the pull-request creation has status 201 but omits
\* the identifier / URL field, CreatePullRequest and the workflow fail with
\* an error (the missing-field error when the body decodes) and the zero
\* result, never with success.
C8_MissingHandleFails ==
    \A p \in procs :
        entry[p] \in Workflows =>
            \A i \in 1..Len(calls[p]) :
                CreatedWithoutHandle(p, i) =>
                    /\ pc[p] = "done" /\ ret[p].err # NoErr /\ ret[p].val = Zero(p)
                    /\ calls[p][i].resp.decodes => ret[p].err.msg \in MissingHandleMsgs

\* Create has failed on a decodable 201 response that lacks html_url.
C8_Witness ==
    \E p \in procs : \E i \in 1..Len(calls[p]) :
        /\ entry[p] = "Create" /\ CreatedWithoutHandle(p, i) /\ calls[p][i].resp.decodes
        /\ pc[p] = "done"

\* ---------------------------------------------------------------------- C9

\* p is a workflow that returned a failure after its validation.
FailedAfterValidation(p) ==
    /\ entry[p] \in Workflows /\ pc[p] = "done" /\ ret[p].err # NoErr
    /\ calls[p] # <<>>

\* The last call of p is a pull-request creation the service answered 201
\* and whose answer the client could not use.
UnusableCreated(p) ==
    LET last == calls[p][Len(calls[p])] IN
    /\ last.op = "CreatePullRequest"
    /\ ~last.resp.neterr /\ last.resp.status = StatusCreated
    /\ last.resp.field = Absent \/ ~last.resp.decodes

\* C9 (as amended): a workflow that fails after validation returns the zero
\* identifier, and no pull request opened by the run exists in the remote
\* repository unless the failing step is CreatePullRequest itself, answered
\* 201 with a body that does not decode or lacks the identifier: then the
\* one pull request the service created stays open.
C9_FailureLeavesNoPR ==
    \A p \in procs :
        FailedAfterValidation(p) =>
            /\ ret[p].val = Zero(p)
            /\ Cardinality(PRsBy(p)) <= 1
            /\ PRsBy(p) # {} => UnusableCreated(p)

\* A workflow whose pull-request creation was refused has failed, no pull
\* request opened.
C9_Witness ==
    \E p \in procs :
        /\ FailedAfterValidation(p) /\ PRsBy(p) = {}
        /\ calls[p][Len(calls[p])].op = "CreatePullRequest"

\* C9 as stated: in every terminal failure state after validation the set of
\* pull requests opened by the run is empty.
C9_Original ==
    \A p \in procs : FailedAfterValidation(p) => PRsBy(p) = {}

\* --------------------------------------------------------------------- C10

\* C10: the workflow never invokes DeleteBranch or ClosePullRequest, and
\* when it returns, successful or failed, every branch it created still
\* exists in the remote repository.
C10_NoCompensation ==
    \A p \in procs :
        /\ \A i \in 1..Len(calls[p]) :
              calls[p][i].op \notin {"DeleteBranch", "ClosePullRequest"}
        /\ entry[p] \in Workflows /\ pc[p] = "done" =>
              \A c \in created[p] : RBranch(c.name) # Absent

\* A workflow has failed with both of its branches created and still there.
C10_Witness ==
    \E p \in procs :
        /\ entry[p] \in Workflows /\ pc[p] = "done" /\ ret[p].err # NoErr
        /\ Cardinality(created[p]) = 2
        /\ \A c \in created[p] : RBranch(c.name) # Absent

\* --------------------------------------------------------------------- C11

\* An earlier run left a branch of q's base or head name behind.
Leftover(q) ==
    \E r \in 1..(q - 1) : \E c \in created[r] :
        c.name \in {cfg[q].BaseBranch, cfg[q].HeadBranch}

\* The last operation of q is a lookup whose request failed, and q returned
\* that failure.
LookupFailed(q) ==
    /\ calls[q] # <<>>
    /\ calls[q][Len(calls[q])].op \in {"Exists", "BranchExists"}
    /\ StepError(q, Len(calls[q])) \notin
          {NoErr, RepoMissing(q), FullBranchMissing(q), BaseBranchPresent(q),
           HeadBranchPresent(q)}
    /\ ret[q].err = StepError(q, Len(calls[q]))

\* C11: the workflow is not idempotent.  A re-run with the same
\* configuration after a failed run that left branches behind, nothing
\* deleted in between, issues no mutating operation and never gets past its
\* existence checks; when it returns it has failed, with "base branch
\* already exists" whenever its lookups were answered.
C11_RerunFailsAgain ==
    \A q \in procs :
        q > 1 /\ Leftover(q) =>
            /\ \A i \in 1..Len(calls[q]) : calls[q][i].op \notin MutatingOps
            /\ created[q] = {} /\ PRsBy(q) = {}
            /\ pc[q] \in {"Validate", "Exists", "BranchExistsFull", "BranchExistsBase", "done"}
            /\ pc[q] = "done" =>
                  /\ ret[q].val = Zero(q)
                  /\ ret[q].err = BaseBranchPresent(q) \/ LookupFailed(q)

\* A re-run of Create after a run that pushed both branches and failed to
\* merge has failed at the base check.
C11_Witness ==
    \E q \in procs :
        /\ q > 1 /\ entry[q] = "Create" /\ Cardinality(created[q - 1]) = 2
        /\ pc[q] = "done" /\ ret[q].err = BaseBranchPresent(q)
        /\ FoundPresent(q, Len(calls[q]))

\* --------------------------------------------------------------------- C12

\* Another execution created a branch named b.
CreatedByOther(p, b) == \E q \in procs \ {p} : \E c \in created[q] : c.name = b

\* Another execution created p's base branch or p's head branch.
Beaten(p) ==
    CreatedByOther(p, cfg[p].BaseBranch) \/ CreatedByOther(p, cfg[p].HeadBranch)

\* p has failed on a step that was refused because of a branch another
\* execution created: an existence check that found it, a CreateBranch
\* answered 422, or a git push with a rejected ref.
RaceLost(p) ==
    /\ pc[p] = "done" /\ ret[p].err # NoErr /\ calls[p] # <<>>
    /\ LET n == Len(calls[p])
           last == calls[p][n]
       IN  \/ /\ last.op = "BranchExists" /\ FoundPresent(p, n)
              /\ CreatedByOther(p, last.args[1])
           \/ /\ last.op = "CreateBranch" /\ ~last.resp.neterr
              /\ last.resp.status = StatusUnprocessableEntity
              /\ CreatedByOther(p, last.args[1])
           \/ /\ last.op = "GitPush" /\ last.resp.field = "rejected"
              /\ Beaten(p)

\* The errors of a creation the service refused.
RefusedCreation(p) ==
    {Err("HTTP status while creating branch", "CreateBranch",
         <<b, emptyCommit[p], cfg[p].Repo>>, StatusUnprocessableEntity) :
       b \in {cfg[p].BaseBranch, cfg[p].HeadBranch}}
    \cup {GitErr("push")}

\* The cleanup tooling has not run: what the executions created is there.
NothingDeleted == \A p \in procs : toolCalls[p] = <<>>

\* C12 (as amended): when two executions of the workflow race on the same
\* repository and branch names, nothing being deleted meanwhile, at most
\* one succeeds; an execution one of
\* whose branches was created by the other never merges nor opens a pull
\* request and returns a failure; the failure of a loser is either the
\* "branch already exists" precondition error (its check ran after the
\* other's creation) or the error of its own refused creation: status 422
\* from CreateBranch, or the failed git push.
C12_LoserFails ==
    NothingDeleted =>
        /\ \A p, q \in procs :
              p # q /\ entry[p] \in Workflows /\ entry[q] \in Workflows
                  => ~(Returned(p) /\ ret[p].err = NoErr /\ Returned(q) /\ ret[q].err = NoErr)
        /\ \A p \in procs :
              /\ Beaten(p) =>
                    /\ \A i \in 1..Len(calls[p]) :
                          calls[p][i].op \notin {"MergeBranch", "CreatePullRequest"}
                    /\ PRsBy(p) = {}
                    /\ pc[p] = "done" => ret[p].err # NoErr /\ ret[p].val = Zero(p)
              /\ RaceLost(p) =>
                    ret[p].err \in {BaseBranchPresent(p), HeadBranchPresent(p)}
                                   \cup RefusedCreation(p)

\* A loser whose CreateBranch was refused: both executions found the base
\* branch absent, the other created it first.
C12_Witness ==
    \E p \in procs :
        /\ entry[p] = "CreateFullPullRequest" /\ Cardinality(procs) = 2
        /\ NothingDeleted /\ RaceLost(p) /\ ret[p].err \in RefusedCreation(p)

\* C12 as stated: in every interleaving the loser terminates with the
\* "branch already exists" precondition failure and no other kind of error.
C12_Original ==
    \A p \in procs :
        NothingDeleted /\ RaceLost(p) => ret[p].err \in {BaseBranchPresent(p), HeadBranchPresent(p)}

\* Both executions of Create lose: each had one ref of its push rejected.
C12_BothLose ==
    \E p, q \in procs :
        /\ p # q /\ NothingDeleted /\ RaceLost(p) /\ RaceLost(q)
        /\ created[p] # {} /\ created[q] # {}

\* --------------------------------------------------------------------- C13

\* The step in which the merge of p succeeds.
MergeSucceeds(p) ==
    /\ entry[p] \in Workflows
    /\ pc[p] = "MergeBranch" /\ pc'[p] = "CreatePullRequest"

\* p's merge step has succeeded and its pull-request step has not run.
Merged(p) == entry[p] \in Workflows /\ pc[p] = "CreatePullRequest"

\* C13: after the merge step succeeds the head branch holds the history of
\* the source branch (and the empty-tree commit it started from), while the
\* base branch still points at the empty-tree commit it was created at; the
\* merge step changes the head branch and nothing else in the repository.
C13_MergeChangesHeadOnly ==
    /\ [](\A p \in procs :
            Merged(p) =>
                /\ RBranch(cfg[p].BaseBranch) = CommitHandle(p)
                /\ Contains(RBranch(cfg[p].HeadBranch), RBranch(cfg[p].FullRepoBranch))
                /\ Contains(RBranch(cfg[p].HeadBranch), CommitHandle(p))
                /\ ~Contains(RBranch(cfg[p].BaseBranch), RBranch(cfg[p].FullRepoBranch)))
    /\ [][\A p \in procs :
            MergeSucceeds(p) =>
                /\ \A b \in BranchNames \ {cfg[p].HeadBranch} : rBranches'[b] = rBranches[b]
                /\ rBranches'[cfg[p].HeadBranch] # rBranches[cfg[p].HeadBranch]
                /\ rCommits \subseteq rCommits'
                /\ UNCHANGED <<rRepoExists, rPRs, created>>]_vars

\* Create has merged: the head branch is at the merge of the source branch
\* into the empty-tree commit, the base branch at the empty-tree commit.
C13_Witness ==
    \E p \in procs :
        /\ entry[p] = "Create" /\ pc[p] = "CreatePullRequest"
        /\ RBranch(cfg[p].HeadBranch) = MergeSha(EmptyTreeSha(p), MainCommit)
        /\ RBranch(cfg[p].BaseBranch) = EmptyTreeSha(p)

\* --------------------------------------------------------------------- C14

\* The i-th call of p is the repository lookup and answered "absent".
RepoReportedAbsent(p, i) ==
    /\ calls[p][i].op = "Exists"
    /\ Exists(calls[p][i].resp, cfg[p].Repo).err = NoErr
    /\ ~Exists(calls[p][i].resp, cfg[p].Repo).ok

\* C14: if the repository lookup reports the repository absent (or not
\* accessible with the token), the workflow terminates with the
\* "repository does not exist" precondition error and issues no branch
\* lookup and no mutating operation.
C14_AbsentRepositoryStops ==
    \A p \in procs : \A i \in 1..Len(calls[p]) :
        entry[p] \in Workflows /\ RepoReportedAbsent(p, i) =>
            /\ Len(calls[p]) = 1
            /\ pc[p] = "done"
            /\ ret[p].err = RepoMissing(p) /\ ret[p].val = Zero(p)
            /\ created[p] = {} /\ PRsBy(p) = {}

\* Create has returned after the lookup of a repository that is not there.
C14_Witness ==
    \E p \in procs :
        /\ entry[p] = "Create" /\ pc[p] = "done" /\ Len(calls[p]) = 1
        /\ RepoReportedAbsent(p, 1) /\ ~rRepoExists

\* --------------------------------------------------------------------- C15

\* The i-th call of p is the source-branch check and answered "absent".
SourceReportedAbsent(p, i) ==
    /\ CheckRole(p, i) = "source"
    /\ BranchExists(calls[p][i].resp, cfg[p].Repo, calls[p][i].args[1]).err = NoErr
    /\ ~BranchExists(calls[p][i].resp, cfg[p].Repo, calls[p][i].args[1]).ok

\* C15: if BranchExists(source) returns false the workflow terminates with
\* the "full repository branch does not exist" precondition error; it
\* checks neither the base nor the head branch and issues no mutating
\* operation.
C15_AbsentSourceStops ==
    \A p \in procs : \A i \in 1..Len(calls[p]) :
        entry[p] \in Workflows /\ SourceReportedAbsent(p, i) =>
            /\ i = Len(calls[p])
            /\ pc[p] = "done"
            /\ ret[p].err = FullBranchMissing(p) /\ ret[p].val = Zero(p)
            /\ Count(p, {"BranchExists"}) = 1
            /\ \A j \in 1..Len(calls[p]) : calls[p][j].op \notin MutatingOps
            /\ created[p] = {} /\ PRsBy(p) = {}

\* Create, in a repository that exists, has returned after finding no
\* source branch.
C15_Witness ==
    \E p \in procs :
        /\ entry[p] = "Create" /\ pc[p] = "done" /\ Len(calls[p]) = 2
        /\ SourceReportedAbsent(p, 2) /\ rRepoExists

\* --------------------------------------------------------------------- C16

\* p is a single Git Operation that has returned on an HTTP response.
Answered(p) ==
    /\ entry[p] \in GitOperations /\ pc[p] = "done"
    /\ ~calls[p][1].resp.neterr

\* The one status an operation takes for success.
SuccessCode(op) ==
    IF op \in Lookups \cup {"ClosePullRequest"} THEN StatusOK
    ELSE IF op = "DeleteBranch" THEN StatusNoContent
    ELSE StatusCreated

\* The operations that read the body of a successful response.
Decoding == Lookups \cup {"CreateEmptyTreeCommit", "CreatePullRequest",
                          "CreatePullRequestNumber"}

\* p returned the error that reports the status of its response.
StatusError(p) ==
    /\ ret[p].err.status = calls[p][1].resp.status
    /\ ret[p].err.status # 0
    /\ ret[p].val = Zero(p)

\* C16 (as amended): every Git Operation compares the response status with
\* its one success code (200 for the lookups and ClosePullRequest, 201 for
\* commit, branch, merge and pull-request creation, 204 for DeleteBranch).
\* A lookup answered 404 returns false without error; every other status
\* that is not the success code is returned as an error naming the status,
\* whatever the body holds.  The body is decoded only when the status is
\* the success code.
C16_StatusDecides ==
    \A p \in procs :
        Answered(p) =>
            LET resp == calls[p][1].resp IN
            /\ entry[p] \in Lookups /\ resp.status = StatusNotFound =>
                  ret[p].err = NoErr /\ ret[p].val = FALSE
            /\ /\ resp.status # SuccessCode(entry[p])
               /\ ~(entry[p] \in Lookups /\ resp.status = StatusNotFound)
               => StatusError(p)
            /\ resp.status = SuccessCode(entry[p]) =>
                  /\ ret[p].err.status = 0
                  /\ entry[p] \notin Decoding => ret[p].err = NoErr
                  /\ entry[p] \in Decoding /\ ~resp.decodes => ret[p].err = DecodeErr
            /\ ret[p].err = DecodeErr => resp.status = SuccessCode(entry[p])

\* DeleteBranch answered 200, the success code of other operations, has
\* returned the status error.
C16_Witness ==
    \E p \in procs :
        /\ Answered(p) /\ entry[p] = "DeleteBranch"
        /\ calls[p][1].resp.status = StatusOK /\ StatusError(p)

\* C16 as stated: every status other than the one success code of the call
\* is treated as a failure.
C16_Original ==
    \A p \in procs :
        Answered(p) /\ calls[p][1].resp.status # SuccessCode(entry[p])
            => ret[p].err # NoErr

\* --------------------------------------------------------------------- C17

\* p is a BranchExists or a CommitExists that has returned.
LookedUp(p) == entry[p] \in {"BranchExists", "CommitExists"} /\ pc[p] = "done"

\* The response to p has status 200 and a body that names what p asked for.
Matches(p) ==
    LET resp == calls[p][1].resp IN
    /\ ~resp.neterr /\ resp.status = StatusOK /\ resp.decodes
    /\ resp.field = calls[p][1].args[1]

\* The response to p has status 200 and a body that names something else.
NamesAnother(p) ==
    LET resp == calls[p][1].resp IN
    /\ ~resp.neterr /\ resp.status = StatusOK /\ resp.decodes
    /\ resp.field \notin {Absent, calls[p][1].args[1]}

AnsweredNotFound(p) ==
    ~calls[p][1].resp.neterr /\ calls[p][1].resp.status = StatusNotFound

MismatchMsgs ==
    {"incorrect name returned while checking if branch exists",
     "incorrect commit sha returned"}

\* C17: BranchExists(name) and CommitExists(sha) return (true, no error)
\* exactly when the status is 200 and the body names the requested branch
\* or commit, (false, no error) exactly when the status is 404, and an
\* error in every other case; a 200 response naming another branch or
\* commit is an error, never "not found".
C17_LookupContract ==
    \A p \in procs :
        LookedUp(p) =>
            /\ (ret[p].err = NoErr /\ ret[p].val = TRUE) <=> Matches(p)
            /\ (ret[p].err = NoErr /\ ret[p].val = FALSE) <=> AnsweredNotFound(p)
            /\ ret[p].err # NoErr <=> ~Matches(p) /\ ~AnsweredNotFound(p)
            /\ ret[p].err # NoErr => ret[p].val = FALSE
            /\ NamesAnother(p) => ret[p].err.msg \in MismatchMsgs

\* BranchExists("rev-base") answered 200 with the name "other" has
\* returned the mismatch error.
C17_Witness ==
    \E p \in procs :
        /\ LookedUp(p) /\ entry[p] = "BranchExists" /\ NamesAnother(p)
        /\ calls[p][1].args = <<"rev-base">> /\ calls[p][1].resp.field = "other"
        /\ ret[p].err.msg \in MismatchMsgs

\* --------------------------------------------------------------------- C18

\* Repository names that differ in letter case only.
CaseVariants == {{"o/r", "O/R"}, {"x/y", "X/Y"}}
SameIgnoringCase(a, b) == a = b \/ \E v \in CaseVariants : a \in v /\ b \in v

\* p is a repository lookup that has returned on a decodable 200 response.
RepoReported(p) ==
    /\ entry[p] = "Exists" /\ pc[p] = "done"
    /\ ~calls[p][1].resp.neterr /\ calls[p][1].resp.status = StatusOK
    /\ calls[p][1].resp.decodes /\ calls[p][1].resp.field # Absent

\* C18: the repository lookup returns true for a 200 response whose
\* reported full name equals the requested owner/name ignoring letter
\* case, false without error for a 404 response, and an error for a 200
\* response whose reported name differs in more than letter case.
C18_RepositoryExists ==
    \A p \in procs :
        /\ RepoReported(p) /\ SameIgnoringCase(calls[p][1].resp.field, cfg[p].Repo) =>
              ret[p].val = TRUE /\ ret[p].err = NoErr
        /\ RepoReported(p) /\ ~SameIgnoringCase(calls[p][1].resp.field, cfg[p].Repo) =>
              /\ ret[p].val = FALSE
              /\ ret[p].err.msg = "incorrect repository name returned"
        /\ entry[p] = "Exists" /\ pc[p] = "done" /\ AnsweredNotFound(p) =>
              ret[p].val = FALSE /\ ret[p].err = NoErr

\* The lookup of "O/R" answered 200 with the full name "o/r" returned true.
C18_Witness ==
    \E p \in procs :
        /\ RepoReported(p) /\ cfg[p].Repo = "O/R" /\ calls[p][1].resp.field = "o/r"
        /\ ret[p].val = TRUE

\* ---------------------------------------------------------------------- C19

\* The field of the resolved configuration each flag sets.
FieldOf(name) ==
    CASE name = "fbranch" -> "FullRepoBranch"
      [] name = "title" -> "Title"
      [] name = "body" -> "Body"
      [] name = "bbranch" -> "BaseBranch"
      [] name = "hbranch" -> "HeadBranch"

\* NewFullPullRequestCreatorFromArgs has returned a configuration to p.
Resolved(p) ==
    /\ p \in procs /\ entry[p] = "NewFullPullRequestCreatorFromArgs"
    /\ pc[p] = "done" /\ ret[p].err = NoErr

FlagGiven(p, name) == cfg[p].Args.flags[name] # NotGiven
EnvSet(p, name) == cfg[p].Env[EnvVarName(name)] # ""

\* The flag is given its own default value while the environment variable
\* holds something else.
DefaultGivenOverEnv(p, name) ==
    /\ cfg[p].Args.flags[name] = DefValue(name)
    /\ EnvSet(p, name)
    /\ cfg[p].Env[EnvVarName(name)] # DefValue(name)

\* C19 as the code has it: each of source branch, title, body, base branch
\* and head branch of the configuration built from the command line is the
\* value of the flag when the flag is given a value other than its default,
\* else the value of the environment variable PRME_<FLAG> when that is set
\* and not empty, else the built-in default; a flag given its default value
\* counts as not given.
C19_ResolutionAsCoded ==
    \A p \in AllProcs : \A name \in StringFlags :
        Resolved(p) =>
            ret[p].val[FieldOf(name)] =
                IF FlagGiven(p, name) /\ cfg[p].Args.flags[name] # DefValue(name)
                    THEN cfg[p].Args.flags[name]
                ELSE IF EnvSet(p, name) THEN cfg[p].Env[EnvVarName(name)]
                ELSE DefValue(name)

\* A configuration was resolved with one field taken from a flag, one from
\* the environment and one from the defaults.
C19_Witness ==
    \E p \in procs :
        /\ Resolved(p)
        /\ FlagGiven(p, "title") /\ EnvSet(p, "title")
        /\ ret[p].val.Title = cfg[p].Args.flags["title"]
        /\ ~FlagGiven(p, "body") /\ EnvSet(p, "body")
        /\ ret[p].val.Body = cfg[p].Env["PRME_BODY"]
        /\ ~FlagGiven(p, "fbranch") /\ ~EnvSet(p, "fbranch")
        /\ ret[p].val.FullRepoBranch = DefaultFullRepoBranch

\* C19 as stated: for every combination of flag given or absent and
\* environment variable set or unset, the flag given on the command line
\* wins over the environment variable, and the environment variable wins
\* over the built-in default.
C19_Original ==
    \A p \in AllProcs : \A name \in StringFlags :
        Resolved(p) =>
            ret[p].val[FieldOf(name)] =
                IF FlagGiven(p, name) THEN cfg[p].Args.flags[name]
                ELSE IF EnvSet(p, name) THEN cfg[p].Env[EnvVarName(name)]
                ELSE DefValue(name)

\* The case that separates the two: a flag given its default value, with
\* the environment variable set, resolves to the environment's value.
C19_EnvBeatsDefaultValuedFlag ==
    \E p \in procs : \E name \in StringFlags :
        /\ Resolved(p) /\ DefaultGivenOverEnv(p, name)
        /\ ret[p].val[FieldOf(name)] = cfg[p].Env[EnvVarName(name)]

\* ---------------------------------------------------------------------- C20

\* The workflow of p has returned success and nothing was cleaned up yet.
Succeeded(p) ==
    /\ p \in procs /\ entry[p] \in Workflows
    /\ pc[p] = "done" /\ ret[p].err = NoErr /\ toolCalls[p] = <<>>

\* The open pull request from p's head branch to p's base branch that the
\* returned handle names.
HandlePR(p) ==
    {pr \in rPRs : /\ pr.number = ReturnedNumber(p) /\ pr.state = "open"
                   /\ pr.base = cfg[p].BaseBranch /\ pr.head = cfg[p].HeadBranch}

\* The service has answered the i-th cleanup request of p.
CleanupAnswered(p, i) == toolCalls[p][i].resp \notin Failures

\* The cleanup sequence: close the returned pull request, delete the head
\* branch, delete the base branch.
CleanupSequence(p) ==
    <<Op("ClosePullRequest", <<ReturnedNumber(p)>>),
      Op("DeleteBranch", <<cfg[p].HeadBranch>>),
      Op("DeleteBranch", <<cfg[p].BaseBranch>>)>>

CleanupOps(p) ==
    [i \in 1..Len(toolCalls[p]) |-> Op(toolCalls[p][i].op, toolCalls[p][i].args)]

\* C20: when the workflow returns success the repository holds the base
\* branch, the head branch and an open pull request from head to base that
\* the returned handle names; the cleanup ClosePullRequest(handle),
\* DeleteBranch(head), DeleteBranch(base) then succeeds at every step the
\* service answers, and after its last step the base and the head branch
\* are absent again and the pull request is closed.
C20_CleanupRestoresPrecondition ==
    \A p \in procs :
        entry[p] \in Workflows =>
            /\ Succeeded(p) =>
                  /\ RBranch(cfg[p].BaseBranch) # Absent
                  /\ RBranch(cfg[p].HeadBranch) # Absent
                  /\ cfg[p].BaseBranch # cfg[p].HeadBranch
                  /\ HandlePR(p) # {}
            /\ IsPrefix(CleanupOps(p), CleanupSequence(p))
            /\ pc[p] = "cleanupFailed" =>
                  /\ toolCalls[p] # <<>>
                  /\ ~CleanupAnswered(p, Len(toolCalls[p]))
            /\ \A i \in 1..Len(toolCalls[p]) :
                  CleanupAnswered(p, i) =>
                      /\ toolCalls[p][i].resp.status \in {StatusOK, StatusNoContent}
                      /\ i < Len(toolCalls[p]) \/ pc[p] # "cleanupFailed"
            /\ pc[p] = "cleaned" =>
                  /\ Len(toolCalls[p]) = 3
                  /\ RBranch(cfg[p].BaseBranch) = Absent
                  /\ RBranch(cfg[p].HeadBranch) = Absent
                  /\ \A pr \in rPRs : pr.number = ReturnedNumber(p) => pr.state = "closed"

\* A successful workflow was cleaned up in three answered steps.
C20_Witness ==
    \E p \in procs :
        /\ entry[p] \in Workflows /\ pc[p] = "cleaned" /\ ret[p].err = NoErr
        /\ Len(toolCalls[p]) = 3
        /\ \A i \in 1..3 : CleanupAnswered(p, i)
        /\ RBranch(cfg[p].BaseBranch) = Absent /\ RBranch(cfg[p].HeadBranch) = Absent

\* ---------------------------------------------------------------------- C21

\* CreateEmptyTreeCommit has returned to the test without an error.
CommitReturned(p) ==
    /\ p \in procs /\ entry[p] = "TestCreateEmptyTreeCommitIntegration"
    /\ pc[p] = "GotSha"

\* The test has looked the returned commit up.
CommitLookedUp(p) ==
    /\ p \in procs /\ entry[p] = "TestCreateEmptyTreeCommitIntegration"
    /\ Len(calls[p]) = 2 /\ calls[p][2].op = "CommitExists"

\* The service has answered the lookup of the i-th call of p.
LookupAnswered(p, i) ==
    /\ calls[p][i].resp \notin Failures
    /\ calls[p][i].resp.status = StatusOK =>
          calls[p][i].resp.decodes /\ calls[p][i].resp.field = calls[p][i].args[1]

\* C21 as the code has it: the handle CreateEmptyTreeCommit returns with a
\* nil error is the sha of the 201 body, and the empty string when the body
\* holds none; a non-empty handle names a commit of the repository, the
\* CommitExists that follows is called with it, never reports it absent,
\* and returns true whenever the service answers it.
C21_CommitRoundTripAsCoded ==
    \A p \in procs :
        /\ CommitReturned(p) =>
              /\ emptyCommit[p] = StringField(calls[p][1].resp)
              /\ emptyCommit[p] # "" => emptyCommit[p] \in rCommits
        /\ CommitLookedUp(p) =>
              /\ calls[p][2].args = <<emptyCommit[p]>> /\ emptyCommit[p] # ""
              /\ calls[p][2].resp.status # StatusNotFound
              /\ pc[p] = "done" => ret[p].err # CommitNotActuallyExists(p)
              /\ pc[p] = "done" /\ LookupAnswered(p, 2) => ret[p].err = NoErr

\* The round trip of the test passed.
C21_Witness ==
    \E p \in procs :
        /\ CommitLookedUp(p) /\ pc[p] = "done" /\ ret[p].err = NoErr
        /\ emptyCommit[p] # "" /\ emptyCommit[p] \in rCommits

\* C21 as stated: whenever CreateEmptyTreeCommit returns successfully the
\* returned commit handle is non-empty.
C21_Original ==
    \A p \in procs : CommitReturned(p) => emptyCommit[p] # ""

\* CreateEmptyTreeCommit returned the empty handle without an error, on a
\* 201 answer whose body holds no sha.
C21_EmptyHandleReturned ==
    \E p \in procs :
        /\ CommitReturned(p) /\ emptyCommit[p] = ""
        /\ calls[p][1].resp.status = StatusCreated /\ calls[p][1].resp.decodes

\* ---------------------------------------------------------------------- C22

\* BranchExists reported the branch absent and CreateOrphanBranch has then
\* returned to the test without an error.
OrphanBranchCreated(p) ==
    /\ p \in procs /\ entry[p] = "TestCreateOrphanBranchIntegration"
    /\ Len(calls[p]) >= 3
    /\ pc[p] = "BranchExistsAfter" \/ Len(calls[p]) = 4

\* The test has looked the branch up again.
BranchLookedUpAgain(p) ==
    /\ OrphanBranchCreated(p)
    /\ Len(calls[p]) = 4 /\ calls[p][4].op = "BranchExists"

\* C22: when BranchExists(branch) was false and CreateOrphanBranch(branch)
\* has then returned successfully, the branch exists in the repository at
\* the commit CreateOrphanBranch made, and the BranchExists(branch) that
\* follows never reports it absent and returns true whenever the service
\* answers it.
C22_OrphanBranchRoundTrip ==
    \A p \in procs :
        /\ OrphanBranchCreated(p) =>
              /\ calls[p][1].op = "BranchExists"
              /\ calls[p][1].resp.status = StatusNotFound
              /\ RBranch(cfg[p].BaseBranch) # Absent
              /\ RBranch(cfg[p].BaseBranch) = emptyCommit[p]
        /\ BranchLookedUpAgain(p) =>
              /\ calls[p][4].args = <<cfg[p].BaseBranch>>
              /\ calls[p][4].resp.status # StatusNotFound
              /\ pc[p] = "done"
              /\ ret[p].err # BranchNotActuallyExists(p)
              /\ LookupAnswered(p, 4) => ret[p].err = NoErr

\* The round trip of the test passed: absent, created, present.
C22_Witness ==
    \E p \in procs :
        /\ BranchLookedUpAgain(p) /\ pc[p] = "done" /\ ret[p].err = NoErr
        /\ calls[p][1].resp.status = StatusNotFound
        /\ calls[p][4].resp.status = StatusOK
        /\ RBranch(cfg[p].BaseBranch) = emptyCommit[p]

\* ---------------------------------------------------------------------- C23

\* The workflow p runs.
RunsWorkflow(p) == p \in procs /\ entry[p] \in Workflows

\* The terminal outcome of p: success with a pull-request handle, or failure
\* with an error and the zero result.
TerminalOutcome(p) ==
    \/ ret[p].err = NoErr /\ ret[p].val # Zero(p)
    \/ ret[p].err # NoErr /\ ret[p].val = Zero(p)

\* C23: every execution of the workflow eventually returns, provided every
\* call returns; when it has returned it has exactly one outcome, success
\* with a pull-request handle or failure with an error, and that outcome
\* never changes; it has issued at most one call for each step of the
\* sequence of its entry point, each after the call before it has returned
\* (the calls issued are a prefix of the sequence), and before it returns
\* it has reported nothing.
C23_Terminates ==
    /\ [](\A p \in AllProcs :
             RunsWorkflow(p) =>
                 /\ Len(calls[p]) <= Len(EntrySequence(p))
                 /\ \A i \in 1..Len(calls[p]) : calls[p][i].op = EntrySequence(p)[i].op
                 /\ Returned(p) => TerminalOutcome(p)
                 /\ ~Returned(p) => ret[p] = [val |-> Zero(p), err |-> NoErr])
    /\ [][\A p \in AllProcs :
             RunsWorkflow(p) /\ Returned(p) =>
                 /\ Returned(p)' /\ ret'[p] = ret[p] /\ calls'[p] = calls[p]]_vars
    /\ \A p \in AllProcs : RunsWorkflow(p) ~> Returned(p)

\* An execution has returned a failure of the last step, after the whole
\* sequence was issued.
C23_Witness ==
    \E p \in procs :
        /\ RunsWorkflow(p) /\ Returned(p)
        /\ Len(calls[p]) = Len(EntrySequence(p))
        /\ ret[p].err # NoErr /\ ret[p].val = Zero(p)

\* ---------------------------------------------------------------------- C24

\* The state of execution q that only q reads and writes.
Local(q) ==
    [pc |-> pc[q], calls |-> calls[q], ret |-> ret[q], emptyCommit |-> emptyCommit[q],
     idx |-> idx[q], localRefs |-> localRefs[q]]

\* What the repository holds under the names of q, and by q.
Own(q) ==
    [base |-> RBranch(cfg[q].BaseBranch), head |-> RBranch(cfg[q].HeadBranch),
     created |-> created[q], prs |-> PRsBy(q)]

\* An outcome without the handle the service chose.
Shape(o) == [neterr |-> o.resp.neterr, status |-> o.resp.status,
             decodes |-> o.resp.decodes, named |-> o.resp.field # Absent,
             applied |-> o.applied]

\* The answers the service may give to the next call of q (for a lookup the
\* responses, for a git command what it meets at the remote, for a creation
\* the outcomes without the handle).
Answers(q) ==
    LET f == cfg[q] IN
    CASE pc[q] = "Exists" -> ExistsResponses(f.Repo)
      [] pc[q] = "BranchExistsFull" -> BranchExistsResponses(f.FullRepoBranch)
      [] pc[q] = "BranchExistsBase" -> BranchExistsResponses(f.BaseBranch)
      [] pc[q] = "BranchExistsHead" -> BranchExistsResponses(f.HeadBranch)
      [] pc[q] = "GitClone" -> {<<rRepoExists, RBranch("main")>>}
      [] pc[q] = "GitPush" -> {rRepoExists}
      [] pc[q] = "GitPushRef" -> {Accepted(branchNames(q)[idx[q]])}
      [] pc[q] = "CreateEmptyTreeCommit" -> {Shape(o) : o \in CreateCommitOutcomes(q)}
      [] pc[q] = "CreateBranchBase" ->
             {Shape(o) : o \in CreateRefOutcomes(f.BaseBranch, emptyCommit[q])}
      [] pc[q] = "CreateBranchHead" ->
             {Shape(o) : o \in CreateRefOutcomes(f.HeadBranch, emptyCommit[q])}
      [] pc[q] = "MergeBranch" ->
             {Shape(o) : o \in MergeOutcomes(f.HeadBranch, f.FullRepoBranch)}
      [] pc[q] = "CreatePullRequest" ->
             {Shape(o) : o \in CreatePROutcomes(f.BaseBranch, f.HeadBranch, "handle")}
      [] OTHER -> {}

\* The step taken is a step of p.
StepOf(p) == Local(p)' # Local(p)

\* The base and head branch names of the executions are pairwise disjoint.
DisjointNames ==
    \A p, q \in procs :
        p # q => {cfg[p].BaseBranch, cfg[p].HeadBranch} \cap
                 {cfg[q].BaseBranch, cfg[q].HeadBranch} = {}

\* C24: two concurrent executions of the workflow with pairwise disjoint
\* base and head branch names are independent.  A step of one execution
\* leaves the other's local state, the other's branches and pull requests,
\* and the answers the service may give to the other's next call as they
\* were (up to the number the service gives a new pull request); each
\* execution creates refs and pull requests under its own names only and
\* issues, as when run alone, a prefix of the sequence of its entry point.
C24_DisjointRunsIndependent ==
    /\ [](DisjointNames =>
             \A q \in procs :
                 /\ IsPrefix(Ops(q), EntrySequence(q))
                 /\ \A c \in created[q] : c.name \in {cfg[q].BaseBranch, cfg[q].HeadBranch}
                 /\ \A pr \in PRsBy(q) :
                       pr.base = cfg[q].BaseBranch /\ pr.head = cfg[q].HeadBranch)
    /\ [][DisjointNames =>
             \A p, q \in procs :
                 p # q /\ StepOf(p) =>
                     /\ Local(q)' = Local(q)
                     /\ Own(q)' = Own(q)
                     /\ Answers(q)' = Answers(q)]_vars

\* Both executions have created their branches and succeeded.
C24_Witness ==
    \E p, q \in procs :
        /\ p # q /\ DisjointNames
        /\ pc[p] = "done" /\ ret[p].err = NoErr /\ pc[q] = "done" /\ ret[q].err = NoErr
        /\ Cardinality(created[p]) = 2 /\ Cardinality(created[q]) = 2
        /\ Cardinality(rPRs) = 2

\* ---------------------------------------------------------------------- C25

\* The command started as p has exited.
Exited(p) == p \in procs /\ cli[p].on /\ cli[p].exited

\* The workflow run by the command p has succeeded: Create has issued its
\* last call and returned no error.
WorkflowSucceeded(p) ==
    /\ entry[p] = "Create" /\ ret[p].err = NoErr
    /\ calls[p] # <<>> /\ calls[p][Len(calls[p])].op = "CreatePullRequest"

\* C25: the command-line entry point writes the URL of the created pull
\* request to its output exactly when the workflow has succeeded, and then
\* the URL is that of a pull request the run opened; on every failure (of
\* the arguments, the configuration, a precondition or a remote call) it
\* writes the error, exits with a non-zero status and reports no pull
\* request.
C25_CLIReportsOutcome ==
    \A p \in procs :
        Exited(p) =>
            /\ cli[p].stdout # "" <=> WorkflowSucceeded(p)
            /\ WorkflowSucceeded(p) =>
                  /\ cli[p].status = 0 /\ cli[p].stderr = NoErr
                  /\ cli[p].stdout = CreatedAt(ret[p].val)
                  /\ \E pr \in PRsBy(p) : ret[p].val = PRURLOf(pr.number)
            /\ ~WorkflowSucceeded(p) =>
                  /\ ret[p].err # NoErr
                  /\ cli[p].status # 0
                  /\ cli[p].stderr = ret[p].err
                  /\ cli[p].stdout = ""

\* The command has exited after a success, with the URL written.
C25_Witness ==
    \E p \in procs :
        /\ Exited(p) /\ WorkflowSucceeded(p)
        /\ cli[p].status = 0 /\ cli[p].stdout = CreatedAt(PRURLOf(1))

\* The command has exited with status 1 after a remote call of the workflow
\* failed.
C25_RemoteFailureReported ==
    \E p \in procs :
        /\ Exited(p) /\ cli[p].status = 1 /\ entry[p] = "Create"
        /\ calls[p] # <<>> /\ calls[p][Len(calls[p])].resp \in Failures

\* --------------------------------------------------------------------- C26

\* p is a single Git Operation that has returned an error.
OperationFailed(p) ==
    /\ entry[p] \in GitOperations /\ pc[p] = "done"
    /\ ret[p].err # NoErr

\* The name the operation goes by in its errors.
OperationName(op) ==
    IF op = "CreatePullRequestNumber" THEN "CreatePullRequest" ELSE op

\* The elements of a tuple.
Elements(t) == {t[i] : i \in 1..Len(t)}

\* The error names an operation and at least one branch, commit or repository.
Identifies(e) == e.op # "" /\ e.subject # <<>>

\* The status of p's response is neither its success code nor a lookup's 404.
UnexpectedStatus(p) ==
    /\ Answered(p)
    /\ calls[p][1].resp.status # SuccessCode(entry[p])
    /\ ~(entry[p] \in Lookups /\ calls[p][1].resp.status = StatusNotFound)

\* The errors an operation passes on or returns without naming itself, a
\* branch, a commit or the repository: what the JSON decoder returned, and
\* the two "did not return" errors of CreatePullRequest.
BareErrors ==
    {DecodeErr} \cup
    {Err(m, "", <<>>, 0) : m \in MissingHandleMsgs}

\* C26 (as coded): an error a Git Operation returns for an unexpected HTTP
\* status names the operation, the repository (with the branch or commit of
\* the call, where it has one) and that numeric status, and an error for a
\* 200 answer about another repository, branch or commit names the
\* operation and both names.  The error of the transport is passed on
\* unchanged (it names the request's method and URL); the error of the JSON
\* decoder and the two "did not return" errors of CreatePullRequest name no
\* operation, branch, commit or repository.
C26_StatusErrorsIdentify ==
    \A p \in procs :
        OperationFailed(p) =>
            LET e == ret[p].err
                resp == calls[p][1].resp IN
            /\ UnexpectedStatus(p) =>
                  /\ e.op = OperationName(entry[p])
                  /\ IF entry[p] = "ClosePullRequest"
                        THEN e.subject = <<1, cfg[p].Repo>>
                        ELSE cfg[p].Repo \in Elements(e.subject)
                  /\ entry[p] \notin {"Exists", "CreateEmptyTreeCommit", "ClosePullRequest"}
                        => cfg[p].BaseBranch \in Elements(e.subject)
                  /\ e.status = resp.status
            /\ resp.neterr <=> e = TransportErr
            /\ ~resp.neterr /\ ~UnexpectedStatus(p) =>
                  \/ e \in BareErrors
                  \/ Identifies(e) /\ e.msg \in MismatchMsgs \cup {"incorrect repository name returned"}

C26_Witness ==
    \E p \in procs :
        /\ OperationFailed(p) /\ UnexpectedStatus(p)
        /\ entry[p] = "MergeBranch"
        /\ ret[p].err.status = StatusUnprocessableEntity

\* C26 (as stated): every error returned by a Git Operation names the
\* operation that failed and the branch, commit or repository involved,
\* and the numeric status when the failure is an unexpected HTTP status.
\* The error of the transport counts as naming them: it holds the method and
\* the URL of the request.
C26_Original ==
    \A p \in procs :
        OperationFailed(p) /\ ret[p].err # TransportErr =>
            /\ Identifies(ret[p].err)
            /\ UnexpectedStatus(p) => ret[p].err.status = calls[p][1].resp.status

\* A 201 answer whose body does not decode makes CreateEmptyTreeCommit
\* return the decoder's error as it is.
C26_BareDecodeError ==
    \E p \in procs :
        /\ OperationFailed(p)
        /\ entry[p] = "CreateEmptyTreeCommit"
        /\ calls[p][1].resp.status = StatusCreated
        /\ ret[p].err = DecodeErr
        /\ ~Identifies(ret[p].err)

\* --------------------------------------------------------------------- C27

\* The requests p has handed to the transport, the cleanup's included (git
\* commands are not requests of the client).
APIRequests(p) ==
    {calls[p][i] : i \in {j \in 1..Len(calls[p]) : calls[p][j].op \in GitOperations}}
    \cup {toolCalls[p][i] : i \in 1..Len(toolCalls[p])}

\* C27: every request that reaches the transport carries an Authorization
\* header holding the client's token, and that token is not empty: with an
\* empty token NewClient fails, no client exists and no request is made.
C27_RequestsCarryToken ==
    \A p \in procs :
        /\ \A c \in APIRequests(p) :
              /\ "auth" \in DOMAIN c
              /\ c.auth = <<"token", cfg[p].Token>>
              /\ c.auth[2] # ""
        /\ cfg[p].Token = "" => calls[p] = <<>> /\ toolCalls[p] = <<>>

C27_Witness ==
    \E p \in procs :
        /\ entry[p] = "Create" /\ Returned(p) /\ ret[p].err = NoErr
        /\ \E c \in APIRequests(p) : c.op = "CreatePullRequest" /\ c.auth = <<"token", "tok">>

\* A Create configured with an empty token has returned the client's
\* construction error without a request.
C27_EmptyTokenRefused ==
    \E p \in procs :
        /\ entry[p] = "Create" /\ cfg[p].Token = "" /\ Returned(p)
        /\ ret[p].err # NoErr /\ calls[p] = <<>>

\* --------------------------------------------------------------------- C28

\* What the i-th call of p, an existence check, returned to the workflow.
LookupResult(p, i) == BranchExists(calls[p][i].resp, cfg[p].Repo, calls[p][i].args[1])

\* Before its j-th call p looked up the branch of that role and was told
\* answer, without error.
LookedUpBefore(p, j, role, answer) ==
    \E i \in 1..(j - 1) :
        /\ CheckRole(p, i) = role
        /\ LookupResult(p, i).err = NoErr
        /\ LookupResult(p, i).ok = answer

\* The positions of validation and the existence checks (steps 1 to 4).
CheckingPCs == {"Validate", "Exists", "BranchExistsFull", "BranchExistsBase",
                "BranchExistsHead"}

\* p returned a failure from validation or from one of the existence checks.
FailedChecking(p) ==
    /\ entry[p] \in Workflows /\ pc[p] = "done" /\ ret[p].err # NoErr
    /\ \A i \in 1..Len(calls[p]) : calls[p][i].op \in Lookups

\* C28: the workflow issues no mutating operation (commit, branch, merge,
\* pull request) unless it has looked up the source branch and was told
\* true, and the base and the head branch and was told false, each without
\* error; a lookup of the base or head branch that returns an error ends the
\* workflow with that error; and every step of validation and of the
\* existence checks leaves the remote repository as it was, so that a
\* workflow failing there has created nothing.
C28_MutationsFollowChecks ==
    /\ [](\A p \in procs :
            entry[p] \in Workflows =>
                /\ \A j \in 1..Len(calls[p]) :
                      calls[p][j].op \in MutatingOps =>
                          /\ LookedUpBefore(p, j, "source", TRUE)
                          /\ LookedUpBefore(p, j, "base", FALSE)
                          /\ LookedUpBefore(p, j, "head", FALSE)
                /\ \A i \in 1..Len(calls[p]) :
                      CheckRole(p, i) # "none" /\ LookupResult(p, i).err # NoErr =>
                          /\ i = Len(calls[p]) /\ pc[p] = "done"
                          /\ ret[p].err = LookupResult(p, i).err
                /\ FailedChecking(p) => created[p] = {} /\ PRsBy(p) = {})
    /\ [][\A p \in procs :
            entry[p] \in Workflows /\ pc[p] \in CheckingPCs /\ pc'[p] # pc[p]
                => remoteVars' = remoteVars]_vars

\* The head lookup of repo.CreateFullPullRequest met an unexpected status
\* and the workflow returned that error without a mutating operation.
C28_Witness ==
    \E p \in procs :
        /\ entry[p] = "CreateFullPullRequest" /\ FailedChecking(p)
        /\ Len(calls[p]) = 3
        /\ LookupResult(p, 3).err.status = StatusInternalServerError

\* A workflow has issued its first mutating operation after the three
\* lookups.
C28_MutationIssued ==
    \E p \in procs :
        /\ entry[p] = "Create"
        /\ \E j \in 1..Len(calls[p]) : calls[p][j].op = "GitPush"

\* --------------------------------------------------------------------- C29

\* The executions of the workflow that returned success.
Winners ==
    {p \in procs : entry[p] \in Workflows /\ Returned(p) /\ ret[p].err = NoErr}

\* The pull requests from head into base the repository holds.
PRsFor(base, head) == {pr \in rPRs : pr.base = base /\ pr.head = head}

\* C29: when two executions run against the same repository with the same
\* base and head names, the remote refusing to create a ref that exists and
\* nothing being deleted meanwhile, at most one of them returns success and
\* the repository holds at most one pull request for that base and head;
\* the execution that succeeds is the one that created both branches and
\* the pull request.
C29_AtMostOneWinner ==
    NothingDeleted =>
        /\ Cardinality(Winners) <= 1
        /\ \A p \in procs :
              entry[p] \in Workflows =>
                  Cardinality(PRsFor(cfg[p].BaseBranch, cfg[p].HeadBranch)) <= 1
        /\ \A p \in Winners :
              /\ ~Beaten(p)
              /\ PRsFor(cfg[p].BaseBranch, cfg[p].HeadBranch) = PRsBy(p)
              /\ PRsBy(p) # {}

\* Two executions of repo.CreateFullPullRequest have returned: one with
\* success, the other refused at a branch creation.
C29_Witness ==
    \E p, q \in procs :
        /\ p # q /\ NothingDeleted
        /\ entry[p] = "CreateFullPullRequest"
        /\ p \in Winners
        /\ Returned(q) /\ ret[q].err \in RefusedCreation(q)

\* --------------------------------------------------------------------- C30

\* The names of the branches p has created.
CreatedNames(p) == {c.name : c \in created[p]}

\* The branches the repository holds.
BranchSet == {b \in BranchNames : rBranches[b] # Absent}

\* The i-th call of p is the step that creates the base branch: the
\* CreateBranch of the base branch, or the git push of both branches.
CreatesBase(p, i) ==
    \/ calls[p][i].op = "CreateBranch" /\ calls[p][i].args[1] = cfg[p].BaseBranch
    \/ calls[p][i].op = "GitPush"

\* p returned a failure from the step that creates the base branch or from
\* a step before it.
FailedByBaseCreation(p) ==
    /\ entry[p] \in Workflows /\ pc[p] = "done" /\ ret[p].err # NoErr
    /\ \A i \in 1..Len(calls[p]) : CreatesBase(p, i) => i = Len(calls[p])

\* C30: in every state of a single execution of the workflow the branches
\* it has created are none, the base branch, or the base and the head
\* branch; an execution that failed at or before the creation of the base
\* branch has created none; and until the workflow returns, the branches of
\* the repository change by the created ones only.
C30_BaseBeforeHead ==
    /\ [](\A p \in procs :
            entry[p] \in Workflows =>
                /\ CreatedNames(p) \in {{}, {cfg[p].BaseBranch},
                                        {cfg[p].BaseBranch, cfg[p].HeadBranch}}
                /\ cfg[p].HeadBranch \in CreatedNames(p)
                      => cfg[p].BaseBranch \in CreatedNames(p)
                /\ FailedByBaseCreation(p) => created[p] = {})
    /\ [][\A p \in procs :
            entry[p] \in Workflows /\ ~Returned(p) =>
                /\ BranchSet' = BranchSet \cup (CreatedNames(p)' \ CreatedNames(p))
                /\ CreatedNames(p) \subseteq CreatedNames(p)'
                /\ created'[p] = created[p] => BranchSet' = BranchSet]_vars

\* The push of Create has delivered the base branch and not yet the head
\* branch.
C30_Witness ==
    \E p \in procs :
        /\ entry[p] = "Create" /\ pc[p] = "GitPushRef"
        /\ CreatedNames(p) = {cfg[p].BaseBranch}
        /\ cfg[p].BaseBranch # cfg[p].HeadBranch

\* repo.CreateFullPullRequest failed at the creation of the head branch,
\* leaving the base branch.
C30_BaseOnly ==
    \E p \in procs :
        /\ entry[p] = "CreateFullPullRequest" /\ pc[p] = "done" /\ ret[p].err # NoErr
        /\ CreatedNames(p) = {cfg[p].BaseBranch}
        /\ calls[p][Len(calls[p])].op = "CreateBranch"

\* --------------------------------------------------------------------- C31

\* The i-th call of p writes to branch b: it creates b, pushes b, or merges
\* into b (the first argument of MergeBranch is the branch merged into).
WritesTo(p, i, b) ==
    LET c == calls[p][i] IN
    \/ c.op \in {"CreateBranch", "GitBranch", "MergeBranch"} /\ c.args[1] = b
    \/ c.op = "GitPush" /\ b \in Elements(c.args)

\* C31: no step of the workflow changes the commit the source branch points
\* at, whatever the names of the base and head branches and whether the
\* workflow succeeds or fails; the source branch is never the branch a
\* creation, a push or a merge writes to, and every merge merges it in.
C31_SourceOnlyRead ==
    /\ [](\A p \in procs :
            entry[p] \in Workflows =>
                \A i \in 1..Len(calls[p]) :
                    /\ ~WritesTo(p, i, cfg[p].FullRepoBranch)
                    /\ calls[p][i].op = "MergeBranch"
                          => calls[p][i].args[2] = cfg[p].FullRepoBranch)
    /\ [][\A p \in procs :
            entry[p] \in Workflows =>
                RBranch(cfg[p].FullRepoBranch)' = RBranch(cfg[p].FullRepoBranch)]_vars

\* Create has merged the source branch into the head branch and succeeded,
\* the source branch still at its commit.
C31_Witness ==
    \E p \in procs :
        /\ entry[p] = "Create" /\ p \in Winners
        /\ \E i \in 1..Len(calls[p]) :
              calls[p][i].op = "MergeBranch" /\ calls[p][i].resp.status = StatusCreated
        /\ RBranch(cfg[p].FullRepoBranch) = MainCommit
        /\ RBranch(cfg[p].HeadBranch) \notin {Absent, MainCommit}

\* --------------------------------------------------------------------- C32

\* The source, base and head branch names of f are pairwise different.
DistinctNames(f) ==
    /\ f.BaseBranch # f.HeadBranch
    /\ f.BaseBranch # f.FullRepoBranch
    /\ f.HeadBranch # f.FullRepoBranch

\* C32: against a repository whose lookups reflect its branches and which
\* refuses to create a ref that exists, a workflow that returns success has
\* pairwise different source, base and head branch names, although it never
\* compares them; with two equal names it stops before the merge, at a
\* lookup or at the second creation of the same branch.
C32_SuccessHasDistinctNames ==
    \A p \in procs :
        entry[p] \in Workflows =>
            /\ p \in Winners => DistinctNames(cfg[p])
            /\ ~DistinctNames(cfg[p]) =>
                  \A i \in 1..Len(calls[p]) :
                      calls[p][i].op \notin {"MergeBranch", "CreatePullRequest"}

\* repo.CreateFullPullRequest returned success, and its names are main,
\* rev-base and rev-head.
C32_Witness ==
    \E p \in procs :
        /\ entry[p] = "CreateFullPullRequest" /\ p \in Winners
        /\ cfg[p].FullRepoBranch = "main"
        /\ cfg[p].BaseBranch = "rev-base" /\ cfg[p].HeadBranch = "rev-head"

\* Create was given the same name for base and head and has returned a
\* failure after its lookups found no such branch.
C32_EqualNamesFail ==
    \E p \in procs :
        /\ entry[p] = "Create" /\ pc[p] = "done" /\ ret[p].err # NoErr
        /\ cfg[p].BaseBranch = cfg[p].HeadBranch
        /\ \E i \in 1..Len(calls[p]) : calls[p][i].op = "GitBranch"

\* --------------------------------------------------------------------- C33

\* repo.CreateFullPullRequest was given one name for the base and the head
\* branch.
SameBaseAndHead(p) ==
    entry[p] = "CreateFullPullRequest" /\ cfg[p].BaseBranch = cfg[p].HeadBranch

\* The three lookups of p were answered: the source branch exists, the
\* base and head branch do not.
ChecksPassed(p) ==
    /\ Len(calls[p]) >= 3
    /\ \A i \in 1..3 :
          /\ CheckRole(p, i) # "none"
          /\ LookupResult(p, i).err = NoErr
          /\ LookupResult(p, i).ok = (CheckRole(p, i) = "source")

\* The i-th call of p is a CreateBranch the service answered 201.
BranchCreatedAt(p, i) ==
    /\ calls[p][i].op = "CreateBranch"
    /\ ~calls[p][i].resp.neterr /\ calls[p][i].resp.status = StatusCreated

BranchFromEmptyHandle(p, i) ==
    calls[p][i].op \in BranchOps /\ calls[p][i].args[2] = ""

\* C34 (as coded): no branch is ever created at an empty commit handle.
\* Create stops with the "empty commit sha" error when git commit-tree
\* succeeds and prints nothing, before any git branch.  The API workflow and
\* CreateOrphanBranch do not look at the handle: when the commit creation
\* succeeds without a sha they send CreateBranch with the empty handle, the
\* service does not create the ref, and they return that call's error.
C34_NoBranchAtEmptyHandle ==
    \A p \in procs :
        /\ \A c \in created[p] : c.sha # ""
        /\ \A b \in BranchNames : rBranches[b] # ""
        /\ \A i \in 1..Len(calls[p]) :
              /\ entry[p] = "Create" => ~BranchFromEmptyHandle(p, i)
              /\ /\ calls[p][i].op = "GitCommitTree"
                 /\ calls[p][i].resp.status = 0 /\ calls[p][i].resp.field = ""
                 => i = Len(calls[p]) /\ pc[p] = "done" /\ ret[p].err = EmptyShaErr
              /\ BranchFromEmptyHandle(p, i) =>
                    /\ calls[p][i - 1].op = "CreateEmptyTreeCommit"
                    /\ calls[p][i - 1].resp.status = StatusCreated
                    /\ calls[p][i].resp \in
                          Failures \cup {HTTP(StatusUnprocessableEntity, FALSE, Absent)}
                    /\ i = Len(calls[p]) /\ pc[p] = "done"
                    /\ ret[p].err = CreateBranch(calls[p][i].resp, cfg[p].Repo,
                                                 calls[p][i].args[1], "")

\* Create has returned the "empty commit sha" error.
C34_Witness ==
    \E p \in procs :
        /\ entry[p] = "Create" /\ pc[p] = "done" /\ ret[p].err = EmptyShaErr
        /\ calls[p][Len(calls[p])].op = "GitCommitTree"

\* C34 (as stated): an execution whose commit creation reported success
\* without a commit identifier fails before any branch creation is
\* attempted.
C34_Original ==
    \A p \in procs : \A i \in 1..Len(calls[p]) : ~BranchFromEmptyHandle(p, i)

\* repo.CreateFullPullRequest has sent CreateBranch for the base branch with
\* the empty handle a 201 answer without sha left it with.
C34_BranchAttemptedFromEmptyHandle ==
    \E p \in procs :
        /\ entry[p] = "CreateFullPullRequest" /\ Len(calls[p]) = 5
        /\ calls[p][4].op = "CreateEmptyTreeCommit"
        /\ calls[p][4].resp.status = StatusCreated /\ calls[p][4].resp.field = Absent
        /\ BranchFromEmptyHandle(p, 5) /\ calls[p][5].args[1] = cfg[p].BaseBranch

\* --------------------------------------------------------------------- C35

\* The repository name has an owner and a name around the slash.
OwnerSlashName(s) == s \in {"o/r", "O/R", "x/y", "X/Y"}

\* p has issued no request and, once returned, has failed with the error of
\* NewRepo and the zero result.
RefusedByNewRepo(p) ==
    /\ calls[p] = <<>>
    /\ pc[p] \in {"Validate", "done"}
    /\ pc[p] = "done" =>
          /\ ret[p].err = NewRepo(cfg[p].Repo, cfg[p].Token)
          /\ ret[p].err # NoErr /\ ret[p].val = ""

\* C35 (as coded): Create on a configuration whose other fields are filled
\* in returns the error of NewRepo without any request when the repository
\* name is empty or holds no slash, or the token is empty.  A repository
\* name that holds a slash is taken as it is, also when the owner or the
\* name is missing: the client is built and the Exists request is sent.
C35_NewRepoRefusal ==
    \A p \in procs :
        entry[p] = "Create" =>
            /\ cfg[p].Token = "" \/ ~ContainsSlash(cfg[p].Repo) => RefusedByNewRepo(p)
            /\ cfg[p].Token # "" /\ ContainsSlash(cfg[p].Repo) /\ pc[p] = "done"
                  => calls[p] # <<>> /\ calls[p][1].op = "Exists"

\* Create was given the repository name "norepo" and has returned the
\* error of NewRepo.
C35_Witness ==
    \E p \in procs :
        /\ entry[p] = "Create" /\ pc[p] = "done" /\ cfg[p].Repo = "norepo"
        /\ cfg[p].Token = "tok" /\ RefusedByNewRepo(p)

\* C35 (as stated): with an empty token, or a repository name that is empty
\* or not of the form owner/name, the workflow returns the construction
\* error without any request.
C35_Original ==
    \A p \in procs :
        entry[p] = "Create" /\ (cfg[p].Token = "" \/ ~OwnerSlashName(cfg[p].Repo))
            => RefusedByNewRepo(p)

\* Create was given a repository name with an owner and no name and has
\* sent the Exists request.
C35_MalformedNameSent ==
    \E p \in procs :
        /\ entry[p] = "Create" /\ cfg[p].Repo = "o/"
        /\ calls[p] # <<>> /\ calls[p][1].op = "Exists"

\* --------------------------------------------------------------------- C36

\* NewFullPullRequestCreator has returned to p.
Constructed(p) == entry[p] = "NewFullPullRequestCreator" /\ pc[p] = "done"

\* The positions of the options of p that set the field.
Setting(p, field) ==
    {i \in 1..Len(cfg[p].Options) : cfg[p].Options[i].field = field}

\* The positions of the options of p that carry the empty string.
EmptyOptions(p) ==
    {i \in 1..Len(cfg[p].Options) : cfg[p].Options[i].value = ""}

Last(S) == CHOOSE i \in S : \A j \in S : j <= i
First(S) == CHOOSE i \in S : \A j \in S : i <= j

\* The value the creator is built with when no option sets the field.
BuiltInDefault(field) ==
    CASE field = "Token" -> ""
      [] field = "FullRepoBranch" -> "main"
      [] field = "Title" -> "Full Review"
      [] field = "Body" -> DefaultBody
      [] field = "BaseBranch" -> "prme-full-review"
      [] field = "HeadBranch" -> "prme-full-content"

\* C36: NewFullPullRequestCreator fails, returning no creator, exactly when
\* the repository is empty ("repo cannot be empty") or an option carries the
\* empty string (the error of the first such option).  A creator returned
\* has non-empty repository, source branch, title, body, base and head
\* branch; each field holds the value of the last option that sets it, or
\* its built-in default when no option does.
C36_CreatorFromOptions ==
    \A p \in procs :
        Constructed(p) =>
            LET f == ret[p].val
                e == ret[p].err
                o == cfg[p].Options
            IN  /\ e # NoErr <=> cfg[p].Repo = "" \/ EmptyOptions(p) # {}
                /\ e # NoErr =>
                      /\ f = IdleConfig
                      /\ e = IF cfg[p].Repo = ""
                                THEN Err("repo cannot be empty", "", <<>>, 0)
                                ELSE EmptyValueErr(o[First(EmptyOptions(p))].field)
                /\ e = NoErr =>
                      /\ f.Repo = cfg[p].Repo
                      /\ \A field \in OptionFields :
                            f[field] = IF Setting(p, field) = {}
                                          THEN BuiltInDefault(field)
                                          ELSE o[Last(Setting(p, field))].value
                      /\ \A field \in OptionFields \ {"Token"} : f[field] # ""
                      /\ f.Repo # ""

\* Two options for the title were given, and the creator returned holds the
\* second one's value and the default body.
C36_Witness ==
    \E p \in procs :
        /\ Constructed(p) /\ ret[p].err = NoErr
        /\ cfg[p].Options = <<[field |-> "Title", value |-> "x"],
                              [field |-> "Title", value |-> "y"]>>
        /\ ret[p].val.Title = "y" /\ ret[p].val.Body = DefaultBody

\* An option with the empty string after a valid one made construction
\* fail.
C36_EmptyOptionRefused ==
    \E p \in procs :
        /\ Constructed(p) /\ ret[p].val = IdleConfig
        /\ cfg[p].Options = <<[field |-> "Title", value |-> "x"],
                              [field |-> "Body", value |-> ""]>>
        /\ ret[p].err = EmptyValueErr("Body")

====
